---- MODULE Spec2Model ----
(***************************************************************************)
(* Realtime presence and message delivery of the messenger server:        *)
(* registerRoutes' WebSocket server (src/server/mongodb.ts:224-346) over   *)
(* the in-memory Repository MemStorage (src/unnamed/part_001:37-206).      *)
(*                                                                         *)
(* Every `await storage.X(...)` of a handler is a suspension point: the    *)
(* action named after the event runs the handler up to and including the   *)
(* Repository call (MemStorage runs an operation's body when it is called),*)
(* and a Resume action runs the rest of the handler later, after any       *)
(* number of steps of other handlers.                                      *)
(*                                                                         *)
(* SpecPresence is the registry and presence part (connection, register,   *)
(* authenticate, close); SpecChat is the event handling between accepted   *)
(* connections of registered users; SpecTyping is the typing indicator     *)
(* between connections that come and go; SpecSession is the message store  *)
(* of two authenticated users, with the clock and the requests that write  *)
(* messages.                                                               *)
(* SpecFaultyStore is presence over a store whose writes can fail;         *)
(* SpecRepository is MemStorage by itself; SpecContacts and SpecRest are   *)
(* the contact and the message routes (src/server/mongodb.ts:96-211);      *)
(* SpecStores is MemStorage beside MongoDBStorage                          *)
(* (src/unnamed/part_000:24-366), both given the same operations, and      *)
(* SpecIds is the same for the ids of users and messages made within one   *)
(* second. SpecSend is the chat window's send (src/unnamed/part_003:       *)
(* 113-122) with the server's two ways of storing a message. SpecFallback  *)
(* is the start of the storage module (src/unnamed/part_001:208-234); the  *)
(* other specifications start after it, with MemStorage selected.          *)
(***************************************************************************)
EXTENDS Integers, Sequences, FiniteSets, Bags, TLC

\* ---------------------------------------------------------------- bounds
NumConns == 3       \* connections accepted by wss over a run
NumChatConns == 2   \* connections open when messaging starts
MaxUserId == 2      \* user ids range over 1..MaxUserId (0 is the falsy id)
MaxMessages == 1    \* messages persisted over a run
MaxPending == 2     \* handlers suspended in an await at the same time
MaxSessionMessages == 2   \* messages persisted over a run of SpecSession
MaxTime == 1        \* the clock reads 0..MaxTime
MaxReceipts == 2    \* read_receipt pushes counted per message (then the count stays)
MaxRepoUsers == 3   \* users of the store in SpecRepository
MaxContacts == 2    \* contact edges added over a run

Conns == 1..NumConns
UserIds == 1..MaxUserId
PayloadIds == 0..MaxUserId      \* what a payload can carry as an id; 0 is missing/zero
Contents == {"a", "b"}          \* what a payload can carry as content

VARIABLES
    readyState,        \* ws.readyState per connection: "NONE" before wss 'connection',
                       \* then "OPEN", and "CLOSED" from the 'close' event on
    userId,            \* the closure variable `let userId` of each connection, 0 = null
    clients,           \* the Map<number, WebSocket>, a set of <<key, connection>> entries
    pending,           \* the handlers suspended in `await storage...`, a bag
    users,             \* MemStorage.users, id -> User
    currentUserId,     \* MemStorage.currentUserId
    messages,          \* MemStorage.messages, id -> Message
    currentMessageId,  \* MemStorage.currentMessageId
    sent,              \* per connection, the events ws.send() handed to it in the last step
    last,              \* the last step: which handler, or which part of one, ran
    now,               \* what `new Date()` reads
    receipts,          \* history: per messageId, the read_receipt pushes sent so far
    contacts,          \* MemStorage.contacts, id -> Contact
    currentContactId,  \* MemStorage.currentContactId
    mongo,             \* the users, contacts and messages collections of MongoDBStorage
    storageModule      \* the storage module: USE_MONGODB, `let storageInstance`,
                       \* `export const storage`, and how far initialize() is

vars == <<readyState, userId, clients, pending, users, currentUserId,
          messages, currentMessageId, sent, last, now, receipts,
          contacts, currentContactId, mongo, storageModule>>

\* the part of the Repository only the requests use, and the other store
repoVars == <<contacts, currentContactId, mongo, storageModule>>

progVars == <<readyState, userId, clients, pending, users, currentUserId,
              messages, currentMessageId, repoVars>>

\* ------------------------------------------------- the storage module
\* before the module is evaluated
NotEvaluated ==
    [USE_MONGODB |-> FALSE, storageInstance |-> "undefined",
     storage |-> "undefined", initialize |-> "not called"]

\* USE_MONGODB not 'true': `storageInstance = new MemStorage()`, then
\* `export const storage = storageInstance`
MemSelected ==
    [USE_MONGODB |-> FALSE, storageInstance |-> "MemStorage",
     storage |-> "MemStorage", initialize |-> "not called"]

\* USE_MONGODB 'true': `storageInstance = new MongoDBStorage()`, the async
\* function is called and runs to `await storageInstance.initialize()`, then
\* `export const storage = storageInstance`
MongoSelected ==
    [USE_MONGODB |-> TRUE, storageInstance |-> "MongoDBStorage",
     storage |-> "MongoDBStorage", initialize |-> "pending"]

\* ------------------------------------------------- Map<number, WebSocket>
\* clients.has(k)
MapHas(m, k) == \E e \in m : e[1] = k

MapGetSomeEntry(m, k) ==
    IF MapHas(m, k) THEN (CHOOSE e \in m : e[1] = k)[2]
    ELSE IF m = {} THEN 0 ELSE (CHOOSE e \in m : TRUE)[2]

\* clients.get(k); 0 stands for undefined
MapGet(m, k) == IF MapHas(m, k) THEN (CHOOSE e \in m : e[1] = k)[2] ELSE 0

MapSetKeepOld(m, k, v) == m \cup {<<k, v>>}

\* clients.set(k, v): inserts or replaces the entry of k
MapSet(m, k, v) == {e \in m : e[1] # k} \cup {<<k, v>>}

MapDeleteNothing(m, k) == m

\* clients.delete(k)
MapDelete(m, k) == {e \in m : e[1] # k}

\* ----------------------------------------------------------- wire events
StatusChange(u, on) == [type |-> "status_change", userId |-> u, isOnline |-> on]
MessageEvent(m) == [type |-> "message", payload |-> m]
MessageSent(m) == [type |-> "message_sent", payload |-> m]
ReadReceiptEvent(id, t) == [type |-> "read_receipt", messageId |-> id, readAt |-> t]
TypingEvent(s, t) == [type |-> "typing", senderId |-> s, isTyping |-> t]

NoneSent == [c \in Conns |-> <<>>]

NoMessage == [id |-> 0, senderId |-> 0, receiverId |-> 0, content |-> "",
              sentAt |-> 0, isRead |-> FALSE]

\* A suspended handler and its locals: arg is the id its payload carried
\* (userId, receiverId or messageId), ok is whether the awaited Repository call
\* fulfilled with a value (a Message) and msg is that value.
Suspended(k, c, a, ok, m) ==
    [kind |-> k, conn |-> c, arg |-> a, ok |-> ok, msg |-> m]

\* the handler suspends / its continuation is taken off the suspended ones
Suspend(b, p) == b (+) SetToBag({p})
Resumed(b, p) == b (-) SetToBag({p})

Copies(ev, n) == [i \in 1..n |-> ev]

\* for (const client of <entries>) if (client.readyState === OPEN) client.send(ev):
\* one send per entry, so a connection held by two entries is sent ev twice
Broadcast(entries, ev) ==
    [c \in Conns |->
        IF readyState[c] = "OPEN"
        THEN Copies(ev, Cardinality({e \in entries : e[2] = c}))
        ELSE <<>>]

SendWhateverState(w, ev) == [c \in Conns |-> IF c = w THEN <<ev>> ELSE <<>>]

\* a push that goes to every open connection once its target is found
SendToAllOpen(w, ev) ==
    [c \in Conns |-> IF w # 0 /\ readyState[c] = "OPEN" THEN <<ev>> ELSE <<>>]

\* `if (w && w.readyState === WebSocket.OPEN) w.send(ev)`, w = 0 is undefined
SendIfOpen(w, ev) ==
    [c \in Conns |-> IF c = w /\ readyState[c] = "OPEN" THEN <<ev>> ELSE <<>>]

\* the sends of two statements, in program order
Then(s1, s2) == [c \in Conns |-> s1[c] \o s2[c]]

\* ------------------------------------------------------------ MemStorage
\* MemStorage.createUser: id = currentUserId++, isOnline: false, lastSeen: new Date()
createUser(us, id, t) == (id :> [id |-> id, isOnline |-> FALSE, lastSeen |-> t]) @@ us

\* MemStorage.getUser: this.users.get(id)
getUser(us, id) == IF id \in DOMAIN us THEN us[id] ELSE [absent |-> TRUE]

\* MemStorage.updateUserStatus: unknown id -> unchanged (returns undefined);
\* lastSeen = new Date() only `if (!isOnline)`
updateUserStatus(us, id, isOnline, t) ==
    IF id \in DOMAIN us
    THEN [us EXCEPT ![id] = [@ EXCEPT !.isOnline = isOnline,
                                      !.lastSeen = IF isOnline THEN @ ELSE t]]
    ELSE us

NewMessageSwapped(id, s, r, content, t) ==
    [id |-> id, senderId |-> r, receiverId |-> s, content |-> content,
     sentAt |-> t, isRead |-> FALSE]

NewMessageUnstamped(id, s, r, content, t) ==
    [id |-> id, senderId |-> s, receiverId |-> r, content |-> content,
     sentAt |-> 0, isRead |-> FALSE]

\* MemStorage.createMessage: the Message it builds; id = currentMessageId++,
\* sentAt: new Date(), isRead: false
NewMessage(id, s, r, content, t) ==
    [id |-> id, senderId |-> s, receiverId |-> r, content |-> content,
     sentAt |-> t, isRead |-> FALSE]

\* MemStorage.addContact: id = currentContactId++, always a new edge
addContact(cs, id, u, contactId) ==
    (id :> [id |-> id, userId |-> u, contactId |-> contactId]) @@ cs

\* the ids of S as a sequence in increasing order: Map iteration order
InOrder(S) ==
    CHOOSE q \in [1..Cardinality(S) -> S] :
        \A i, j \in 1..Cardinality(S) : i < j => q[i] < q[j]

\* MemStorage.removeContact: deletes the first edge userId -> contactId, if any
removeContact(cs, u, contactId) ==
    LET S == {id \in DOMAIN cs : cs[id].userId = u /\ cs[id].contactId = contactId}
    IN IF S = {} THEN cs ELSE [id \in DOMAIN cs \ {InOrder(S)[1]} |-> cs[id]]

\* MemStorage.getContacts: the users of the edges of u, one per edge, in Map
\* order, without those getUser does not find
getContacts(cs, us, u) ==
    LET S == {id \in DOMAIN cs : cs[id].userId = u /\ cs[id].contactId \in DOMAIN us}
    IN [i \in 1..Cardinality(S) |-> us[cs[InOrder(S)[i]].contactId]]

SortNewestFirst(ms, S) ==
    CHOOSE q \in [1..Cardinality(S) -> S] :
        \A i, j \in 1..Cardinality(S) :
            i < j => \/ ms[q[i]].sentAt > ms[q[j]].sentAt
                     \/ (ms[q[i]].sentAt = ms[q[j]].sentAt /\ q[i] < q[j])

\* Array.from(map.values()) of the ids in S followed by a sort on sentAt: the Map
\* iterates in insertion order, which is id order, and the sort is stable
SortBySentAt(ms, S) ==
    CHOOSE q \in [1..Cardinality(S) -> S] :
        \A i, j \in 1..Cardinality(S) :
            i < j => \/ ms[q[i]].sentAt < ms[q[j]].sentAt
                     \/ ms[q[i]].sentAt = ms[q[j]].sentAt /\ q[i] < q[j]

getMessagesSentByUser(ms, u, contactId) ==
    LET S == {id \in DOMAIN ms :
                 ms[id].senderId = u /\ ms[id].receiverId = contactId}
        q == SortBySentAt(ms, S)
    IN [i \in 1..Cardinality(S) |-> ms[q[i]]]

\* MemStorage.getMessages(userId, contactId)
getMessages(ms, u, contactId) ==
    LET S == {id \in DOMAIN ms :
                 \/ ms[id].senderId = u /\ ms[id].receiverId = contactId
                 \/ ms[id].senderId = contactId /\ ms[id].receiverId = u}
        q == SortBySentAt(ms, S)
    IN [i \in 1..Cardinality(S) |-> ms[q[i]]]

\* the other participant of message m, seen from u
Partner(m, u) == IF m.senderId = u THEN m.receiverId ELSE m.senderId

OldestMessageWith(ms, u, partner) ==
    LET S == {id \in DOMAIN ms :
                 (ms[id].senderId = u \/ ms[id].receiverId = u)
                 /\ Partner(ms[id], u) = partner}
        id == CHOOSE i \in S : \A j \in S : i <= j
    IN ms[id]

\* msgs.sort(newest first)[0] of the messages u exchanged with partner: the sort
\* is stable, so of the newest ones the first stored
LastMessageWith(ms, u, partner) ==
    LET S == {id \in DOMAIN ms :
                 (ms[id].senderId = u \/ ms[id].receiverId = u)
                 /\ Partner(ms[id], u) = partner}
        id == CHOOSE i \in S :
                 \A j \in S : \/ ms[j].sentAt < ms[i].sentAt
                               \/ (ms[j].sentAt = ms[i].sentAt /\ i <= j)
    IN ms[id]

\* the first message stored of those u exchanged with partner
FirstIdWith(ms, u, partner) ==
    InOrder({id \in DOMAIN ms :
                (ms[id].senderId = u \/ ms[id].receiverId = u)
                /\ Partner(ms[id], u) = partner})[1]

\* MemStorage.getRecentConversations: one entry per other participant of u's
\* messages that getUser finds, newest lastMessage first; the sort is stable, so
\* equal times keep the order in which the participants first appear
getRecentConversations(ms, us, u) ==
    LET P == {Partner(ms[id], u) :
                 id \in {i \in DOMAIN ms : ms[i].senderId = u \/ ms[i].receiverId = u}}
               \cap DOMAIN us
        q == CHOOSE f \in [1..Cardinality(P) -> P] :
                \A i, j \in 1..Cardinality(P) :
                   i < j =>
                      LET a == LastMessageWith(ms, u, f[i])
                          b == LastMessageWith(ms, u, f[j])
                      IN \/ a.sentAt > b.sentAt
                         \/ (a.sentAt = b.sentAt
                               /\ FirstIdWith(ms, u, f[i]) < FirstIdWith(ms, u, f[j]))
    IN [i \in 1..Cardinality(P) |->
          [contact |-> us[q[i]], lastMessage |-> LastMessageWith(ms, u, q[i])]]

\* ------------------------------------------------------------ MongoDBStorage
\* Strings are sequences of one-character strings. A JavaScript number is held
\* as its decimal digits, and NaN as the three characters it is written with.
Digits == {"0", "1", "2", "3", "4", "5", "6", "7", "8", "9"}
HexDigits == Digits \cup {"a", "b", "c", "d", "e", "f"}
NaN == <<"N", "a", "N">>

\* ObjectId.toString(): 24 hexadecimal characters; here the leading ones are
\* given and the rest is f
Hex(prefix) == prefix \o [i \in 1..(24 - Len(prefix)) |-> "f"]

\* what `new ObjectId()` can produce: ids that begin with two digits, with one
\* digit, with twelve digits, and one that has digits only
ObjectIds ==
    {Hex(<<"6", "5">>),
     Hex(<<"6", "a">>),
     Hex(<<"6", "5", "4", "3", "2", "1", "0", "9", "8", "7", "6", "5">>),
     [i \in 1..24 |-> "6"]}

\* parseInt(str): the number the leading decimal digits spell, NaN when the
\* first character is no digit (no string here begins with 0, a sign or space)
parseInt(str) ==
    LET n == CHOOSE k \in 0..Len(str) :
                /\ \A i \in 1..k : str[i] \in Digits
                /\ k = Len(str) \/ str[k + 1] \notin Digits
    IN IF n = 0 THEN NaN ELSE SubSeq(str, 1, n)

\* Number.prototype.toString(): the digits of an integer below 10^21, the
\* exponential form d.ddd...e+XX from 10^21 on (its fraction up to rounding),
\* "NaN" for NaN
NumberToString(n) ==
    IF n = NaN THEN NaN
    ELSE IF Len(n) <= 21 THEN n
    ELSE <<n[1], ".">> \o SubSeq(n, 2, 16) \o <<"e", "+", "2">>
            \o <<(<<"1", "2", "3">>)[Len(n) - 21]>>

\* the constructor did not accept the string
Throws == <<>>

\* new ObjectId(str): a string of 24 hexadecimal characters is the id it
\* spells; a string of 12 characters is taken as the 12 bytes of the id (a digit
\* d is the byte 0x3d; newer drivers throw instead, and either way the id is
\* none that `new ObjectId()` produces now); any other string throws
ObjectIdFromString(str) ==
    IF Len(str) = 24 /\ \A i \in 1..24 : str[i] \in HexDigits THEN str
    ELSE IF Len(str) = 12
    THEN [i \in 1..24 |-> IF i % 2 = 1 THEN "3" ELSE str[i \div 2]]
    ELSE Throws

\* the collections of an empty database, each in insertion order
EmptyDb == [users |-> <<>>, contacts |-> <<>>, messages |-> <<>>]

\* undefined, as the result of an operation
Absent == [absent |-> TRUE]

mapMongoUserToUser(d) ==
    [id |-> parseInt(d._id), isOnline |-> d.isOnline, lastSeen |-> d.lastSeen]

mapMongoMessageToMessage(d) ==
    [id |-> parseInt(d._id), senderId |-> d.senderId, receiverId |-> d.receiverId,
     content |-> d.content, sentAt |-> d.sentAt, isRead |-> d.isRead]

\* MongoDBStorage.createUser: insertOne with _id: new ObjectId(), isOnline: true,
\* lastSeen: new Date()
mongoCreateUser(db, oid, t) ==
    [db EXCEPT !.users = Append(@, [_id |-> oid, isOnline |-> TRUE, lastSeen |-> t])]

\* MongoDBStorage.getUser(id): findOne({_id: new ObjectId(id.toString())}),
\* undefined when the constructor throws or no document has the id
mongoGetUser(db, id) ==
    LET oid == ObjectIdFromString(NumberToString(id))
        S == {k \in 1..Len(db.users) : db.users[k]._id = oid}
    IN IF oid = Throws \/ S = {} THEN Absent
       ELSE mapMongoUserToUser(db.users[CHOOSE k \in S : TRUE])

\* MongoDBStorage.updateUserStatus(id, isOnline): findOneAndUpdate by
\* new ObjectId(id.toString()) with $set {isOnline, lastSeen: new Date()};
\* nothing changes when the constructor throws or no document has the id
mongoUpdateUserStatus(db, id, isOnline, t) ==
    LET oid == ObjectIdFromString(NumberToString(id))
        S == {k \in 1..Len(db.users) : db.users[k]._id = oid}
    IN IF oid = Throws \/ S = {} THEN db
       ELSE [db EXCEPT !.users[CHOOSE k \in S : TRUE] =
                          [@ EXCEPT !.isOnline = isOnline, !.lastSeen = t]]

\* MongoDBStorage.addContact: the edge {userId, contactId} is inserted unless
\* findOne finds one
mongoAddContact(db, oid, u, contactId) ==
    IF \E k \in 1..Len(db.contacts) :
          db.contacts[k].userId = u /\ db.contacts[k].contactId = contactId
    THEN db
    ELSE [db EXCEPT !.contacts =
                       Append(@, [_id |-> oid, userId |-> u, contactId |-> contactId])]

\* MongoDBStorage.getContacts(userId): [] without edges; else the users whose
\* _id is among new ObjectId(contactId.toString()) of the edges, and [] when
\* one of the constructors throws
mongoGetContacts(db, u) ==
    LET oids == {ObjectIdFromString(NumberToString(db.contacts[k].contactId)) :
                    k \in {i \in 1..Len(db.contacts) : db.contacts[i].userId = u}}
        found == SelectSeq(db.users, LAMBDA d : d._id \in oids)
    IN IF oids = {} \/ Throws \in oids THEN <<>>
       ELSE [i \in 1..Len(found) |-> mapMongoUserToUser(found[i])]

\* MongoDBStorage.createMessage: insertOne with _id: new ObjectId(),
\* sentAt: new Date(), isRead: false
mongoCreateMessage(db, oid, s, r, content, t) ==
    [db EXCEPT !.messages =
                  Append(@, [_id |-> oid, senderId |-> s, receiverId |-> r,
                             content |-> content, sentAt |-> t, isRead |-> FALSE])]

\* MongoDBStorage.markMessageAsRead(messageId): findOneAndUpdate by
\* new ObjectId(messageId.toString()) with $set {isRead: true}; nothing changes
\* when the constructor throws or no document has the id
mongoMarkMessageAsRead(db, id) ==
    LET oid == ObjectIdFromString(NumberToString(id))
        S == {k \in 1..Len(db.messages) : db.messages[k]._id = oid}
    IN IF oid = Throws \/ S = {} THEN db
       ELSE [db EXCEPT !.messages[CHOOSE k \in S : TRUE] = [@ EXCEPT !.isRead = TRUE]]

\* the positions of the messages between u and c, in either direction
mongoPair(db, u, c) ==
    {k \in 1..Len(db.messages) :
        \/ (db.messages[k].senderId = u /\ db.messages[k].receiverId = c)
        \/ (db.messages[k].senderId = c /\ db.messages[k].receiverId = u)}

\* find({$or: ...}).sort({sentAt: -1}).limit(1) for a pair that has messages:
\* a newest message, of equal ones the first in the collection
mongoLastMessage(db, u, c) ==
    LET S == mongoPair(db, u, c)
        k == CHOOSE i \in S :
                \A j \in S : \/ db.messages[j].sentAt < db.messages[i].sentAt
                              \/ (db.messages[j].sentAt = db.messages[i].sentAt /\ i <= j)
    IN mapMongoMessageToMessage(db.messages[k])

\* MongoDBStorage.getMessages(userId, contactId): find({$or: ...}).sort({sentAt: 1}),
\* equal times in collection order
mongoGetMessages(db, u, c) ==
    LET S == mongoPair(db, u, c)
        q == CHOOSE f \in [1..Cardinality(S) -> S] :
                \A i, j \in 1..Cardinality(S) :
                   i < j => \/ db.messages[f[i]].sentAt < db.messages[f[j]].sentAt
                            \/ (db.messages[f[i]].sentAt = db.messages[f[j]].sentAt
                                  /\ f[i] < f[j])
    IN [i \in 1..Cardinality(S) |-> mapMongoMessageToMessage(db.messages[q[i]])]

\* MongoDBStorage.getRecentConversations(userId): [] when getContacts returns
\* []; else one entry per contact with messages, newest lastMessage first
mongoGetRecentConversations(db, u) ==
    LET cs == SelectSeq(mongoGetContacts(db, u),
                        LAMBDA c : mongoPair(db, u, c.id) # {})
        n == Len(cs)
        q == CHOOSE f \in [1..n -> 1..n] :
                /\ \A i, j \in 1..n : i # j => f[i] # f[j]
                /\ \A i, j \in 1..n :
                      i < j =>
                         LET a == mongoLastMessage(db, u, cs[f[i]].id)
                             b == mongoLastMessage(db, u, cs[f[j]].id)
                         IN \/ a.sentAt > b.sentAt
                            \/ (a.sentAt = b.sentAt /\ f[i] < f[j])
    IN [i \in 1..n |->
          [contact |-> cs[q[i]], lastMessage |-> mongoLastMessage(db, u, cs[q[i]].id)]]

markMessageAsReadKeepsFlag(ms, id) == ms

markMessageAsReadToggles(ms, id) ==
    IF id \in DOMAIN ms THEN [ms EXCEPT ![id].isRead = ~ms[id].isRead] ELSE ms

\* MemStorage.markMessageAsRead: the stored map afterwards
markMessageAsRead(ms, id) ==
    IF id \in DOMAIN ms THEN [ms EXCEPT ![id].isRead = TRUE] ELSE ms

\* ------------------------------------------------------------- handlers
AlwaysAuthenticated(c) == TRUE

\* the `&& userId` of the message, read_receipt and typing branches
Authenticated(c) == userId[c] # 0

\* ---------------------------------------------------------------- Init
Init ==
    /\ readyState = [c \in Conns |-> "NONE"]
    /\ userId = [c \in Conns |-> 0]
    /\ clients = {}
    /\ pending = EmptyBag
    /\ users = <<>>
    /\ currentUserId = 1
    /\ messages = <<>>
    /\ currentMessageId = 1
    /\ sent = NoneSent
    /\ last = "init"
    /\ now = 0
    /\ receipts = <<>>
    /\ contacts = <<>>
    /\ currentContactId = 1
    /\ mongo = EmptyDb
    /\ storageModule = MemSelected

\* wss.on('connection'): connections are numbered in the order they are accepted
Connect(c) ==
    /\ readyState[c] = "NONE"
    /\ \A d \in Conns : d < c => readyState[d] # "NONE"
    /\ readyState' = [readyState EXCEPT ![c] = "OPEN"]
    /\ userId' = [userId EXCEPT ![c] = 0]
    /\ sent' = NoneSent
    /\ last' = "connection"
    /\ UNCHANGED <<clients, pending, users, currentUserId, messages, currentMessageId, now, receipts, repoVars>>

\* POST /api/register -> storage.createUser (the account-creation collaborator)
CreateUser ==
    /\ currentUserId <= MaxUserId
    /\ users' = createUser(users, currentUserId, now)
    /\ currentUserId' = currentUserId + 1
    /\ sent' = NoneSent
    /\ last' = "createUser"
    /\ UNCHANGED <<readyState, userId, clients, pending, messages, currentMessageId, now, receipts, repoVars>>

OnAuthenticateKnownUsers(c, u, ok) ==
    /\ readyState[c] = "OPEN"
    /\ userId' = [userId EXCEPT ![c] = u]
    /\ IF u # 0 /\ u \in DOMAIN users
       THEN /\ BagCardinality(pending) < MaxPending
            /\ clients' = MapSet(clients, u, c)
            /\ users' = IF ok THEN updateUserStatus(users, u, TRUE, now) ELSE users
            /\ pending' = Suspend(pending, Suspended("authenticate", c, u, ok, NoMessage))
       ELSE /\ ok
            /\ UNCHANGED <<clients, users, pending>>
    /\ sent' = NoneSent
    /\ last' = "authenticate"
    /\ UNCHANGED <<readyState, currentUserId, messages, currentMessageId, now, receipts, repoVars>>

\* ws.on('message'), type 'authenticate', up to `await storage.updateUserStatus`;
\* ok = FALSE is the store failing the write: MongoDBStorage.updateUserStatus
\* catches the error and fulfils with undefined (part_000:124-127)
OnAuthenticate(c, u, ok) ==
    /\ readyState[c] = "OPEN"
    /\ userId' = [userId EXCEPT ![c] = u]
    /\ IF u # 0
       THEN /\ BagCardinality(pending) < MaxPending
            /\ clients' = MapSet(clients, u, c)
            /\ users' = IF ok THEN updateUserStatus(users, u, TRUE, now) ELSE users
            /\ pending' = Suspend(pending, Suspended("authenticate", c, u, ok, NoMessage))
       ELSE /\ ok
            /\ UNCHANGED <<clients, users, pending>>
    /\ sent' = NoneSent
    /\ last' = "authenticate"
    /\ UNCHANGED <<readyState, currentUserId, messages, currentMessageId, now, receipts, repoVars>>

\* an `authenticate` event whose presence write reaches the store
Authenticate(c, u) == OnAuthenticate(c, u, TRUE)

ResumeAuthenticateIfPersisted(p) ==
    /\ p \in BagToSet(pending)
    /\ p.kind = "authenticate"
    /\ LET c == p.conn
           u == userId[c]
       IN /\ sent' = IF p.ok
                     THEN Broadcast({e \in clients : e[1] # u}, StatusChange(u, TRUE))
                     ELSE NoneSent
          /\ last' = "authenticate_resume"
    /\ pending' = Resumed(pending, p)
    /\ UNCHANGED <<readyState, userId, clients, users, currentUserId,
                   messages, currentMessageId, now, receipts, repoVars>>

\* the rest of the authenticate branch: the online broadcast. `userId` is the
\* connection's closure variable, read again after the await.
ResumeAuthenticate(p) ==
    /\ p \in BagToSet(pending)
    /\ p.kind = "authenticate"
    /\ LET c == p.conn
           u == userId[c]
       IN /\ sent' = Broadcast({e \in clients : e[1] # u}, StatusChange(u, TRUE))
          /\ last' = "authenticate_resume"
    /\ pending' = Resumed(pending, p)
    /\ UNCHANGED <<readyState, userId, clients, users, currentUserId,
                   messages, currentMessageId, now, receipts, repoVars>>

\* ws.on('message'), type 'message', up to `await storage.createMessage`;
\* ok = FALSE is createMessage rejecting (the store is unreachable); max bounds
\* the messages persisted over a run
OnMessage(max, c, r, content, ok) ==
    /\ readyState[c] = "OPEN"
    /\ IF Authenticated(c)
       THEN /\ BagCardinality(pending) < MaxPending
            /\ IF ok
               THEN /\ currentMessageId <= max
                    /\ messages' = (currentMessageId :>
                          NewMessage(currentMessageId, userId[c], r, content, now)) @@ messages
                    /\ currentMessageId' = currentMessageId + 1
                    /\ pending' = Suspend(pending,
                          Suspended("message", c, r, TRUE,
                             NewMessage(currentMessageId, userId[c], r, content, now)))
               ELSE /\ pending' = Suspend(pending, Suspended("message", c, r, FALSE, NoMessage))
                    /\ UNCHANGED <<messages, currentMessageId>>
       ELSE /\ ok
            /\ UNCHANGED <<messages, currentMessageId, pending>>
    /\ sent' = NoneSent
    /\ last' = "message"
    /\ UNCHANGED <<readyState, userId, clients, users, currentUserId, now, receipts, repoVars>>

\* a `message` event as SpecChat sends it
Message(c, r, ok) == OnMessage(MaxMessages, c, r, "a", ok)

ResumeMessageUnchecked(p) ==
    /\ p \in BagToSet(pending)
    /\ p.kind = "message"
    /\ sent' = Then(SendIfOpen(MapGet(clients, p.arg), MessageEvent(p.msg)),
                    SendIfOpen(p.conn, MessageSent(p.msg)))
    /\ last' = "message_resume"
    /\ pending' = Resumed(pending, p)
    /\ UNCHANGED <<readyState, userId, clients, users, currentUserId,
                   messages, currentMessageId, now, receipts, repoVars>>

\* the rest of the message branch: push to the receiver, confirm to the sender;
\* a rejected createMessage lands in the catch, which only logs
ResumeMessage(p) ==
    /\ p \in BagToSet(pending)
    /\ p.kind = "message"
    /\ LET c == p.conn
       IN /\ sent' = IF p.ok
                     THEN Then(SendIfOpen(MapGet(clients, p.arg), MessageEvent(p.msg)),
                               SendIfOpen(c, MessageSent(p.msg)))
                     ELSE NoneSent
          /\ last' = "message_resume"
    /\ pending' = Resumed(pending, p)
    /\ UNCHANGED <<readyState, userId, clients, users, currentUserId,
                   messages, currentMessageId, now, receipts, repoVars>>

\* ws.on('message'), type 'read_receipt', up to `await storage.markMessageAsRead`
ReadReceipt(c, id) ==
    /\ readyState[c] = "OPEN"
    /\ IF Authenticated(c)
       THEN /\ BagCardinality(pending) < MaxPending
            /\ messages' = markMessageAsRead(messages, id)
            /\ pending' = Suspend(pending,
                  IF id \in DOMAIN messages
                  THEN Suspended("read_receipt", c, id, TRUE, markMessageAsRead(messages, id)[id])
                  ELSE Suspended("read_receipt", c, id, FALSE, NoMessage))
       ELSE UNCHANGED <<messages, pending>>
    /\ sent' = NoneSent
    /\ last' = "read_receipt"
    /\ UNCHANGED <<readyState, userId, clients, users, currentUserId, currentMessageId,
                   now, receipts, repoVars>>

\* the rest of the read_receipt branch: notify the message's sender
ResumeReadReceipt(p) ==
    /\ p \in BagToSet(pending)
    /\ p.kind = "read_receipt"
    /\ LET c == p.conn
           senderWs == MapGet(clients, p.msg.senderId)
       IN /\ sent' = IF p.ok
                     THEN SendIfOpen(senderWs, ReadReceiptEvent(p.arg, now))
                     ELSE NoneSent
          /\ last' = "read_receipt_resume"
    /\ pending' = Resumed(pending, p)
    /\ UNCHANGED <<readyState, userId, clients, users, currentUserId,
                   messages, currentMessageId, now, repoVars>>

TypingEchoed(c, r, t) ==
    /\ readyState[c] = "OPEN"
    /\ sent' = IF Authenticated(c)
               THEN Then(SendIfOpen(MapGet(clients, r), TypingEvent(userId[c], t)),
                         SendIfOpen(c, TypingEvent(userId[c], t)))
               ELSE NoneSent
    /\ last' = "typing"
    /\ UNCHANGED <<progVars, now, receipts>>

\* ws.on('message'), type 'typing': no await
Typing(c, r, t) ==
    /\ readyState[c] = "OPEN"
    /\ sent' = IF Authenticated(c)
               THEN SendIfOpen(MapGet(clients, r), TypingEvent(userId[c], t))
               ELSE NoneSent
    /\ last' = "typing"
    /\ UNCHANGED <<progVars, now, receipts>>

UnknownClosesConnection(c) ==
    /\ readyState[c] = "OPEN"
    /\ readyState' = [readyState EXCEPT ![c] = "CLOSED"]
    /\ sent' = NoneSent
    /\ last' = "unknown"
    /\ UNCHANGED <<userId, clients, pending, users, currentUserId,
                   messages, currentMessageId, now, receipts, repoVars>>

\* ws.on('message') with an unknown type, a text JSON.parse rejects, or no
\* payload (reading a field of it throws into the catch)
Unknown(c) ==
    /\ readyState[c] = "OPEN"
    /\ sent' = NoneSent
    /\ last' = "unknown"
    /\ UNCHANGED <<progVars, now, receipts>>

\* ws.on('close') up to `await storage.updateUserStatus`; ok as in OnAuthenticate
OnClose(c, ok) ==
    /\ readyState[c] = "OPEN"
    /\ readyState' = [readyState EXCEPT ![c] = "CLOSED"]
    /\ IF userId[c] # 0
       THEN /\ BagCardinality(pending) < MaxPending
            /\ clients' = MapDelete(clients, userId[c])
            /\ users' = IF ok THEN updateUserStatus(users, userId[c], FALSE, now) ELSE users
            /\ pending' = Suspend(pending, Suspended("close", c, userId[c], ok, NoMessage))
       ELSE /\ ok
            /\ UNCHANGED <<clients, users, pending>>
    /\ sent' = NoneSent
    /\ last' = "close"
    /\ UNCHANGED <<userId, currentUserId, messages, currentMessageId, now, receipts, repoVars>>

\* a close whose presence write reaches the store
Close(c) == OnClose(c, TRUE)

\* the rest of the close handler: the offline broadcast
ResumeClose(p) ==
    /\ p \in BagToSet(pending)
    /\ p.kind = "close"
    /\ LET c == p.conn
       IN /\ sent' = Broadcast(clients, StatusChange(userId[c], FALSE))
          /\ last' = "close_resume"
    /\ pending' = Resumed(pending, p)
    /\ UNCHANGED <<readyState, userId, clients, users, currentUserId,
                   messages, currentMessageId, now, receipts, repoVars>>

\* The registry and presence: connections come, authenticate and go
NextPresence ==
    \/ \E c \in Conns : Connect(c)
    \/ CreateUser
    \/ \E c \in Conns, u \in PayloadIds : Authenticate(c, u)
    \/ \E p \in BagToSet(pending) : ResumeAuthenticate(p)
    \/ \E c \in Conns : Close(c)
    \/ \E p \in BagToSet(pending) : ResumeClose(p)

SpecPresence == Init /\ [][NextPresence]_vars

\* Messaging between the first NumChatConns connections, once they are accepted
\* and the users are registered
InitChat ==
    /\ readyState = [c \in Conns |-> IF c <= NumChatConns THEN "OPEN" ELSE "NONE"]
    /\ userId = [c \in Conns |-> 0]
    /\ clients = {}
    /\ pending = EmptyBag
    /\ users = [id \in UserIds |-> [id |-> id, isOnline |-> FALSE, lastSeen |-> 0]]
    /\ currentUserId = MaxUserId + 1
    /\ messages = <<>>
    /\ currentMessageId = 1
    /\ sent = NoneSent
    /\ last = "init"
    /\ now = 0
    /\ receipts = <<>>
    /\ contacts = <<>>
    /\ currentContactId = 1
    /\ mongo = EmptyDb
    /\ storageModule = MemSelected

NextChat ==
    \/ \E c \in Conns, u \in PayloadIds : Authenticate(c, u)
    \/ \E p \in BagToSet(pending) : ResumeAuthenticate(p)
    \/ \E c \in Conns, r \in PayloadIds, ok \in BOOLEAN : Message(c, r, ok)
    \/ \E p \in BagToSet(pending) : ResumeMessage(p)
    \/ \E c \in Conns, id \in 1..MaxMessages : ReadReceipt(c, id)
    \/ \E p \in BagToSet(pending) : ResumeReadReceipt(p) /\ UNCHANGED receipts
    \/ \E c \in Conns, r \in PayloadIds, t \in BOOLEAN : Typing(c, r, t)
    \/ \E c \in Conns : Unknown(c)
    \/ \E c \in Conns : Close(c)
    \/ \E p \in BagToSet(pending) : ResumeClose(p)

SpecChat == InitChat /\ [][NextChat]_vars

\* Presence over a store whose presence writes can fail
NextFaultyStore ==
    \/ \E c \in Conns, u \in PayloadIds, ok \in BOOLEAN : OnAuthenticate(c, u, ok)
    \/ \E p \in BagToSet(pending) : ResumeAuthenticate(p)
    \/ \E c \in Conns, ok \in BOOLEAN : OnClose(c, ok)
    \/ \E p \in BagToSet(pending) : ResumeClose(p)

SpecFaultyStore == InitChat /\ [][NextFaultyStore]_vars

\* Typing indicators between connections that authenticate and close
NextTyping ==
    \/ \E c \in Conns : Connect(c)
    \/ \E c \in Conns, u \in PayloadIds : Authenticate(c, u)
    \/ \E p \in BagToSet(pending) : ResumeAuthenticate(p)
    \/ \E c \in Conns, r \in PayloadIds, t \in BOOLEAN : Typing(c, r, t)
    \/ \E c \in Conns : Close(c)
    \/ \E p \in BagToSet(pending) : ResumeClose(p)

SpecTyping == InitChat /\ [][NextTyping]_vars

\* The Repository by itself: its operations applied in any order to a store
\* with MaxRepoUsers users registered
RepoUserIds == 1..MaxRepoUsers

InitRepository ==
    /\ readyState = [c \in Conns |-> "NONE"]
    /\ userId = [c \in Conns |-> 0]
    /\ clients = {}
    /\ pending = EmptyBag
    /\ users = [id \in RepoUserIds |-> [id |-> id, isOnline |-> FALSE, lastSeen |-> 0]]
    /\ currentUserId = MaxRepoUsers + 1
    /\ messages = <<>>
    /\ currentMessageId = 1
    /\ sent = NoneSent
    /\ last = "init"
    /\ now = 0
    /\ receipts = <<>>
    /\ contacts = <<>>
    /\ currentContactId = 1
    /\ mongo = EmptyDb
    /\ storageModule = MemSelected

\* storage.updateUserStatus(id, isOnline)
UpdateUserStatus(id, isOnline) ==
    /\ users' = updateUserStatus(users, id, isOnline, now)
    /\ sent' = NoneSent
    /\ last' = "updateUserStatus"
    /\ UNCHANGED <<readyState, userId, clients, pending, currentUserId,
                   messages, currentMessageId, now, receipts, repoVars>>

\* storage.addContact({userId, contactId})
AddContact(u, contactId) ==
    /\ currentContactId <= MaxContacts
    /\ contacts' = addContact(contacts, currentContactId, u, contactId)
    /\ currentContactId' = currentContactId + 1
    /\ sent' = NoneSent
    /\ last' = "addContact"
    /\ UNCHANGED <<readyState, userId, clients, pending, users, currentUserId,
                   messages, currentMessageId, now, receipts, mongo, storageModule>>

\* storage.removeContact(userId, contactId)
RemoveContact(u, contactId) ==
    /\ contacts' = removeContact(contacts, u, contactId)
    /\ sent' = NoneSent
    /\ last' = "removeContact"
    /\ UNCHANGED <<readyState, userId, clients, pending, users, currentUserId,
                   messages, currentMessageId, now, receipts, currentContactId,
                   mongo, storageModule>>

\* storage.createMessage({senderId, receiverId, content})
CreateMessage(s, r, content) ==
    /\ currentMessageId <= MaxSessionMessages
    /\ messages' = (currentMessageId :>
                      NewMessage(currentMessageId, s, r, content, now)) @@ messages
    /\ currentMessageId' = currentMessageId + 1
    /\ sent' = NoneSent
    /\ last' = "createMessage"
    /\ UNCHANGED <<readyState, userId, clients, pending, users, currentUserId,
                   now, receipts, repoVars>>

\* storage.markMessageAsRead(messageId)
MarkMessageAsRead(id) ==
    /\ messages' = markMessageAsRead(messages, id)
    /\ sent' = NoneSent
    /\ last' = "markMessageAsRead"
    /\ UNCHANGED <<readyState, userId, clients, pending, users, currentUserId,
                   currentMessageId, now, receipts, repoVars>>

\* time passes
Tick ==
    /\ now < MaxTime
    /\ now' = now + 1
    /\ sent' = NoneSent
    /\ last' = "tick"
    /\ UNCHANGED <<progVars, receipts>>

\* the username each user registered with; registration refuses a name that is
\* taken, so no two users share one
Username(id) == <<"ann", "bob", "cy">>[id]

\* request bodies: "" is a body without username, "dee" a name no user has
Usernames == {"", "ann", "bob", "cy", "dee"}

\* MemStorage.getUserByUsername: the id of the first user of that name, 0 for
\* undefined
getUserByUsername(us, name) ==
    LET S == {id \in DOMAIN us : Username(id) = name}
    IN IF S = {} THEN 0 ELSE InOrder(S)[1]

\* POST /api/contacts of the logged-in user u, up to `await
\* storage.getUserByUsername`: 400 when the body has no username
PostContact(u, name) ==
    /\ u \in DOMAIN users
    /\ currentContactId <= MaxContacts
    /\ IF name = ""
       THEN /\ last' = "POST /api/contacts: 400 Username is required"
            /\ UNCHANGED pending
       ELSE /\ BagCardinality(pending) < MaxPending
            /\ pending' = Suspend(pending,
                  Suspended("POST /api/contacts", u,
                            getUserByUsername(users, name), TRUE, NoMessage))
            /\ last' = "POST /api/contacts"
    /\ sent' = NoneSent
    /\ UNCHANGED <<readyState, userId, clients, users, currentUserId,
                   messages, currentMessageId, now, receipts, repoVars>>

\* whether getContacts(u) holds the user contactId
IsContact(cs, us, u, contactId) ==
    \E i \in 1..Len(getContacts(cs, us, u)) : getContacts(cs, us, u)[i].id = contactId

ResumePostContactNoSelfCheck(p) ==
    /\ p \in BagToSet(pending)
    /\ p.kind = "POST /api/contacts"
    /\ IF p.arg = 0
       THEN /\ last' = "POST /api/contacts: 404 User not found"
            /\ pending' = Resumed(pending, p)
       ELSE /\ last' = "POST /api/contacts: getContacts"
            /\ pending' = Suspend(Resumed(pending, p),
                  Suspended("POST /api/contacts: getContacts", p.conn, p.arg,
                            IsContact(contacts, users, p.conn, p.arg), NoMessage))
    /\ sent' = NoneSent
    /\ UNCHANGED <<readyState, userId, clients, users, currentUserId,
                   messages, currentMessageId, now, receipts, repoVars>>

\* POST /api/contacts from the answer of getUserByUsername up to `await
\* storage.getContacts`: 404 when no user has the name, 400 when it is the
\* requester's own
ResumePostContact(p) ==
    /\ p \in BagToSet(pending)
    /\ p.kind = "POST /api/contacts"
    /\ IF p.arg = 0
       THEN /\ last' = "POST /api/contacts: 404 User not found"
            /\ pending' = Resumed(pending, p)
       ELSE IF p.arg = p.conn
       THEN /\ last' = "POST /api/contacts: 400 Cannot add yourself as a contact"
            /\ pending' = Resumed(pending, p)
       ELSE /\ last' = "POST /api/contacts: getContacts"
            /\ pending' = Suspend(Resumed(pending, p),
                  Suspended("POST /api/contacts: getContacts", p.conn, p.arg,
                            IsContact(contacts, users, p.conn, p.arg), NoMessage))
    /\ sent' = NoneSent
    /\ UNCHANGED <<readyState, userId, clients, users, currentUserId,
                   messages, currentMessageId, now, receipts, repoVars>>

\* POST /api/contacts from the answer of getContacts to the response: 400 when
\* the user was among the contacts, else storage.addContact and 201
ResumePostContactAdd(p) ==
    /\ p \in BagToSet(pending)
    /\ p.kind = "POST /api/contacts: getContacts"
    /\ pending' = Resumed(pending, p)
    /\ IF p.ok
       THEN /\ last' = "POST /api/contacts: 400 User is already in your contacts"
            /\ UNCHANGED <<contacts, currentContactId>>
       ELSE /\ currentContactId <= MaxContacts
            /\ contacts' = addContact(contacts, currentContactId, p.conn, p.arg)
            /\ currentContactId' = currentContactId + 1
            /\ last' = "POST /api/contacts: 201"
    /\ sent' = NoneSent
    /\ UNCHANGED <<readyState, userId, clients, users, currentUserId,
                   messages, currentMessageId, now, receipts, mongo, storageModule>>

\* DELETE /api/contacts/:contactId of the logged-in user u: 404 when
\* removeContact finds no edge, else 204
DeleteContact(u, contactId) ==
    /\ u \in DOMAIN users
    /\ contacts' = removeContact(contacts, u, contactId)
    /\ last' = IF contacts' = contacts THEN "DELETE /api/contacts/:contactId: 404"
                                       ELSE "DELETE /api/contacts/:contactId"
    /\ sent' = NoneSent
    /\ UNCHANGED <<readyState, userId, clients, pending, users, currentUserId,
                   messages, currentMessageId, now, receipts, currentContactId,
                   mongo, storageModule>>

PostMessageUnchecked(u, r, content) ==
    /\ u \in DOMAIN users
    /\ currentMessageId <= MaxSessionMessages
    /\ messages' = (currentMessageId :>
                      NewMessage(currentMessageId, u, r, content, now)) @@ messages
    /\ currentMessageId' = currentMessageId + 1
    /\ sent' = NoneSent
    /\ last' = "POST /api/messages"
    /\ UNCHANGED <<readyState, userId, clients, pending, users, currentUserId,
                   now, receipts, repoVars>>

\* POST /api/messages of the logged-in user u: 400 when receiverId or content
\* is falsy (0 and "" here), 404 unless getUser(receiverId) finds the receiver,
\* then createMessage and 201. Users are never removed, so the answer of
\* getUser still holds when createMessage runs.
PostMessage(u, r, content) ==
    /\ u \in DOMAIN users
    /\ IF r = 0 \/ content = ""
       THEN /\ last' = "POST /api/messages: 400"
            /\ UNCHANGED <<messages, currentMessageId>>
       ELSE IF r \notin DOMAIN users
       THEN /\ last' = "POST /api/messages: 404"
            /\ UNCHANGED <<messages, currentMessageId>>
       ELSE /\ currentMessageId <= MaxSessionMessages
            /\ messages' = (currentMessageId :>
                              NewMessage(currentMessageId, u, r, content, now)) @@ messages
            /\ currentMessageId' = currentMessageId + 1
            /\ last' = "POST /api/messages"
    /\ sent' = NoneSent
    /\ UNCHANGED <<readyState, userId, clients, pending, users, currentUserId,
                   now, receipts, repoVars>>

\* PATCH /api/messages/:messageId/read for a numeric messageId:
\* markMessageAsRead, 404 when it finds no message
PatchRead(id) ==
    /\ messages' = markMessageAsRead(messages, id)
    /\ last' = IF id \in DOMAIN messages
               THEN "PATCH /api/messages/:messageId/read"
               ELSE "PATCH /api/messages/:messageId/read: 404"
    /\ sent' = NoneSent
    /\ UNCHANGED <<readyState, userId, clients, pending, users, currentUserId,
                   currentMessageId, now, receipts, repoVars>>

\* the history after one more read_receipt push for message id
Counted(h, id) ==
    LET n == IF id \in DOMAIN h THEN h[id] ELSE 0
    IN (id :> IF n < MaxReceipts THEN n + 1 ELSE n) @@ h

\* ResumeReadReceipt with its push, if it makes one, recorded in the history
ResumeReadReceiptRecorded(p) ==
    /\ ResumeReadReceipt(p)
    /\ receipts' = IF sent' # NoneSent THEN Counted(receipts, p.arg) ELSE receipts

\* A session of two users: connection 1 is authenticated as user 1 and
\* connection 2 as user 2, and both stay
InitSession ==
    /\ readyState = [c \in Conns |-> IF c <= NumChatConns THEN "OPEN" ELSE "NONE"]
    /\ userId = [c \in Conns |-> IF c <= NumChatConns THEN c ELSE 0]
    /\ clients = {<<c, c>> : c \in 1..NumChatConns}
    /\ pending = EmptyBag
    /\ users = [id \in UserIds |->
                  [id |-> id, isOnline |-> id <= NumChatConns, lastSeen |-> 0]]
    /\ currentUserId = MaxUserId + 1
    /\ messages = <<>>
    /\ currentMessageId = 1
    /\ sent = NoneSent
    /\ last = "init"
    /\ now = 0
    /\ receipts = <<>>
    /\ contacts = <<>>
    /\ currentContactId = 1
    /\ mongo = EmptyDb
    /\ storageModule = MemSelected

NextSession ==
    \/ Tick
    \/ \E c \in Conns, r \in UserIds, content \in Contents, ok \in BOOLEAN :
          OnMessage(MaxSessionMessages, c, r, content, ok)
    \/ \E p \in BagToSet(pending) : ResumeMessage(p)
    \/ \E c \in Conns, id \in 1..MaxSessionMessages : ReadReceipt(c, id)
    \/ \E p \in BagToSet(pending) : ResumeReadReceiptRecorded(p)
    \/ \E u, r \in UserIds, content \in Contents : PostMessage(u, r, content)
    \/ \E id \in 1..MaxSessionMessages : PatchRead(id)

SpecSession == InitSession /\ [][NextSession]_vars

\* user 1 and its contacts and conversations with the others; presence writes
\* for user 1 and for an id no user has
NextRepository ==
    \/ Tick
    \/ \E id \in {1, MaxRepoUsers + 1}, isOnline \in BOOLEAN : UpdateUserStatus(id, isOnline)
    \/ \E contactId \in RepoUserIds \ {1} : AddContact(1, contactId)
    \/ \E contactId \in RepoUserIds \ {1} : RemoveContact(1, contactId)
    \/ \E r \in RepoUserIds \ {1} : CreateMessage(1, r, "a")
    \/ \E s \in RepoUserIds \ {1} : CreateMessage(s, 1, "a")
    \/ \E id \in 1..MaxSessionMessages : MarkMessageAsRead(id)

SpecRepository == InitRepository /\ [][NextRepository]_vars

\* The contact requests of the logged-in users 1 and 2
NextContacts ==
    \/ \E u \in {1, 2}, name \in Usernames : PostContact(u, name)
    \/ \E p \in BagToSet(pending) : ResumePostContact(p)
    \/ \E p \in BagToSet(pending) : ResumePostContactAdd(p)
    \/ \E u \in {1, 2}, contactId \in RepoUserIds : DeleteContact(u, contactId)

SpecContacts == InitRepository /\ [][NextContacts]_vars

\* The message requests of the logged-in users 1 and 2
NextRest ==
    \/ Tick
    \/ \E u \in {1, 2}, r \in 0..(MaxRepoUsers + 1), content \in {"", "a"} :
          PostMessage(u, r, content)
    \/ \E id \in 1..(MaxSessionMessages + 1) : PatchRead(id)

SpecRest == InitRepository /\ [][NextRest]_vars

\* MemStorage and MongoDBStorage side by side, both empty at first and given
\* the same operations. A user is named by the order of its creation: the k-th
\* user has the id k in MemStorage and the id MongoId(k) in MongoDBStorage.
MongoId(k) == parseInt(mongo.users[k]._id)

\* storage.createUser(...)
StoresCreateUser(oid) ==
    /\ currentUserId <= MaxRepoUsers
    /\ \A k \in 1..Len(mongo.users) : mongo.users[k]._id # oid
    /\ users' = createUser(users, currentUserId, now)
    /\ currentUserId' = currentUserId + 1
    /\ UNCHANGED storageModule
    /\ mongo' = mongoCreateUser(mongo, oid, now)
    /\ sent' = NoneSent
    /\ last' = "createUser"
    /\ UNCHANGED <<readyState, userId, clients, pending, messages, currentMessageId,
                   now, receipts, contacts, currentContactId>>

\* storage.updateUserStatus(id, isOnline) for the k-th user
StoresUpdateUserStatus(k, isOnline) ==
    /\ k \in DOMAIN users
    /\ users' = updateUserStatus(users, k, isOnline, now)
    /\ UNCHANGED storageModule
    /\ mongo' = mongoUpdateUserStatus(mongo, MongoId(k), isOnline, now)
    /\ sent' = NoneSent
    /\ last' = "updateUserStatus"
    /\ UNCHANGED <<readyState, userId, clients, pending, currentUserId, messages,
                   currentMessageId, now, receipts, contacts, currentContactId>>

\* storage.addContact({userId, contactId}) for the i-th and the j-th user
StoresAddContact(i, j, oid) ==
    /\ i \in DOMAIN users
    /\ j \in DOMAIN users
    /\ currentContactId <= MaxContacts
    /\ \A k \in 1..Len(mongo.contacts) : mongo.contacts[k]._id # oid
    /\ contacts' = addContact(contacts, currentContactId, i, j)
    /\ currentContactId' = currentContactId + 1
    /\ UNCHANGED storageModule
    /\ mongo' = mongoAddContact(mongo, oid, MongoId(i), MongoId(j))
    /\ sent' = NoneSent
    /\ last' = "addContact"
    /\ UNCHANGED <<readyState, userId, clients, pending, users, currentUserId,
                   messages, currentMessageId, now, receipts>>

\* storage.createMessage({senderId, receiverId, content}) for the i-th and the
\* j-th user; max bounds the messages stored over a run
OnStoresCreateMessage(max, i, j, oid) ==
    /\ i \in DOMAIN users
    /\ j \in DOMAIN users
    /\ currentMessageId <= max
    /\ \A k \in 1..Len(mongo.messages) : mongo.messages[k]._id # oid
    /\ messages' = (currentMessageId :>
                      NewMessage(currentMessageId, i, j, "a", now)) @@ messages
    /\ currentMessageId' = currentMessageId + 1
    /\ UNCHANGED storageModule
    /\ mongo' = mongoCreateMessage(mongo, oid, MongoId(i), MongoId(j), "a", now)
    /\ sent' = NoneSent
    /\ last' = "createMessage"
    /\ UNCHANGED <<readyState, userId, clients, pending, users, currentUserId,
                   now, receipts, contacts, currentContactId>>

StoresCreateMessage(i, j, oid) == OnStoresCreateMessage(MaxMessages, i, j, oid)

\* storage.markMessageAsRead(id) for the k-th message
StoresMarkMessageAsRead(k) ==
    /\ k \in DOMAIN messages
    /\ messages' = markMessageAsRead(messages, messages[k].id)
    /\ UNCHANGED storageModule
    /\ mongo' = mongoMarkMessageAsRead(mongo,
                    mapMongoMessageToMessage(mongo.messages[k]).id)
    /\ sent' = NoneSent
    /\ last' = "markMessageAsRead"
    /\ UNCHANGED <<readyState, userId, clients, pending, users, currentUserId,
                   currentMessageId, now, receipts, contacts, currentContactId>>

\* the ids `new ObjectId()` gives to contact and message documents here
EdgeObjectIds == {Hex(<<"6", "5">>), Hex(<<"6", "a">>)}

\* users are created; the first has its presence written, adds the others as
\* contacts and exchanges messages with them
NextStores ==
    \/ Tick
    \/ \E oid \in ObjectIds : StoresCreateUser(oid)
    \/ \E isOnline \in BOOLEAN : StoresUpdateUserStatus(1, isOnline)
    \/ \E j \in RepoUserIds \ {1}, oid \in EdgeObjectIds : StoresAddContact(1, j, oid)
    \/ \E j \in RepoUserIds \ {1}, oid \in EdgeObjectIds : StoresCreateMessage(1, j, oid)
    \/ \E j \in RepoUserIds \ {1}, oid \in EdgeObjectIds : StoresCreateMessage(j, 1, oid)

SpecStores == Init /\ [][NextStores]_vars

\* ids `new ObjectId()` makes within one second in one process: the timestamp
\* and the process value, the first 18 characters, are the same, the counter
\* at the end differs
SameSecondObjectIds ==
    {[Hex(<<"6", "5">>) EXCEPT ![24] = ch] : ch \in {"d", "e", "f"}}

\* ChatWindow.handleSendMessage of the user of connection c, for the contact r
\* and the text content: sendMessage hands a `message` event to the open
\* socket, and sendMessageMutation.mutate posts the same text to
\* /api/messages. Both requests are then on their way to the server.
HandleSendMessage(c, r, content) ==
    /\ readyState[c] = "OPEN"
    /\ Authenticated(c)
    /\ content # ""
    /\ r # 0
    /\ pending = EmptyBag
    /\ pending' = Suspend(Suspend(pending,
                      Suspended("send: message event", c, r, TRUE,
                                [NoMessage EXCEPT !.content = content])),
                      Suspended("send: POST /api/messages", c, r, TRUE,
                                [NoMessage EXCEPT !.content = content]))
    /\ sent' = NoneSent
    /\ last' = "handleSendMessage"
    /\ UNCHANGED <<readyState, userId, clients, users, currentUserId,
                   messages, currentMessageId, now, receipts, repoVars>>

\* the server receives the `message` event of a send: the message branch of
\* ws.on('message') up to `await storage.createMessage`, as in OnMessage
ReceiveSentMessage(p) ==
    /\ p \in BagToSet(pending)
    /\ p.kind = "send: message event"
    /\ readyState[p.conn] = "OPEN"
    /\ Authenticated(p.conn)
    /\ currentMessageId <= MaxSessionMessages
    /\ messages' = (currentMessageId :>
                      NewMessage(currentMessageId, userId[p.conn], p.arg,
                                 p.msg.content, now)) @@ messages
    /\ currentMessageId' = currentMessageId + 1
    /\ pending' = Suspend(Resumed(pending, p),
                      Suspended("message", p.conn, p.arg, TRUE,
                                NewMessage(currentMessageId, userId[p.conn], p.arg,
                                           p.msg.content, now)))
    /\ sent' = NoneSent
    /\ last' = "message"
    /\ UNCHANGED <<readyState, userId, clients, users, currentUserId, now,
                   receipts, repoVars>>

\* the server receives the POST of a send, from the user logged in on the
\* client of connection p.conn: POST /api/messages as in PostMessage
ReceiveSentPost(p) ==
    /\ p \in BagToSet(pending)
    /\ p.kind = "send: POST /api/messages"
    /\ userId[p.conn] \in DOMAIN users
    /\ pending' = Resumed(pending, p)
    /\ IF p.arg \notin DOMAIN users
       THEN /\ last' = "POST /api/messages: 404"
            /\ UNCHANGED <<messages, currentMessageId>>
       ELSE /\ currentMessageId <= MaxSessionMessages
            /\ messages' = (currentMessageId :>
                              NewMessage(currentMessageId, userId[p.conn], p.arg,
                                         p.msg.content, now)) @@ messages
            /\ currentMessageId' = currentMessageId + 1
            /\ last' = "POST /api/messages"
    /\ sent' = NoneSent
    /\ UNCHANGED <<readyState, userId, clients, users, currentUserId, now,
                   receipts, repoVars>>

\* the texts of the messages stored and of the sends on their way
TextsInUse ==
    {messages[id].content : id \in DOMAIN messages}
       \cup {p.msg.content : p \in BagToSet(pending)}

\* Sends from the chat windows of the two users of a session, each send with a
\* text not used before
NextSend ==
    \/ Tick
    \/ \E c \in 1..NumChatConns, r \in UserIds, content \in Contents :
          /\ r # userId[c]
          /\ content \notin TextsInUse
          /\ HandleSendMessage(c, r, content)
    \/ \E p \in BagToSet(pending) : ReceiveSentMessage(p)
    \/ \E p \in BagToSet(pending) : ReceiveSentPost(p)
    \/ \E p \in BagToSet(pending) : ResumeMessage(p)

SpecSend == InitSession /\ [][NextSend]_vars

\* The ids of both stores: users and messages are created and then addressed
\* by the id the store returned for them
NextIds ==
    \/ \E oid \in ObjectIds : currentUserId <= MaxUserId /\ StoresCreateUser(oid)
    \/ \E isOnline \in BOOLEAN : StoresUpdateUserStatus(1, isOnline)
    \/ \E oid \in SameSecondObjectIds :
          OnStoresCreateMessage(MaxSessionMessages, 1, 2, oid)
    \/ \E k \in 1..MaxSessionMessages : StoresMarkMessageAsRead(k)

SpecIds == Init /\ [][NextIds]_vars

\* -------------------------------------------- the storage module starts
\* The module is evaluated, initialize() settles, and callers reach the
\* Repository through the exported `storage`.
InitFallback ==
    /\ readyState = [c \in Conns |-> "NONE"]
    /\ userId = [c \in Conns |-> 0]
    /\ clients = {}
    /\ pending = EmptyBag
    /\ users = <<>>
    /\ currentUserId = 1
    /\ messages = <<>>
    /\ currentMessageId = 1
    /\ sent = NoneSent
    /\ last = "init"
    /\ now = 0
    /\ receipts = <<>>
    /\ contacts = <<>>
    /\ currentContactId = 1
    /\ mongo = EmptyDb
    /\ storageModule = NotEvaluated

\* the module body, which has no await of its own: the selection, the call of
\* the async function up to its await, and the export
EvaluateStorageModule(useMongo) ==
    /\ storageModule = NotEvaluated
    /\ storageModule' = IF useMongo THEN MongoSelected ELSE MemSelected
    /\ pending' = IF useMongo
                  THEN Suspend(pending, Suspended("initialize", 0, 0, TRUE, NoMessage))
                  ELSE pending
    /\ sent' = NoneSent
    /\ last' = "storage module evaluated"
    /\ UNCHANGED <<readyState, userId, clients, users, currentUserId, messages,
                   currentMessageId, now, receipts, contacts, currentContactId, mongo>>

\* the rest of the async function: initialize() resolved, or it rejected and
\* the catch assigns `storageInstance = new MemStorage()`; `storage` is a const
ResumeInitialize(p, ok) ==
    /\ p \in BagToSet(pending)
    /\ p.kind = "initialize"
    /\ storageModule' =
          IF ok THEN [storageModule EXCEPT !.initialize = "resolved"]
          ELSE [storageModule EXCEPT !.initialize = "rejected",
                                     !.storageInstance = "MemStorage"]
    /\ pending' = Resumed(pending, p)
    /\ sent' = NoneSent
    /\ last' = IF ok THEN "initialize resolved" ELSE "initialize rejected"
    /\ UNCHANGED <<readyState, userId, clients, users, currentUserId, messages,
                   currentMessageId, now, receipts, contacts, currentContactId, mongo>>

\* storage.createUser(...) by an importer of the module: the object `storage`
\* is bound to serves it; MongoDBStorage inserts the document with the _id the
\* driver makes, or rejects when the database does not answer
StorageCreateUser(oid, ok) ==
    /\ storageModule.storage # "undefined"
    /\ IF storageModule.storage = "MemStorage"
       THEN /\ currentUserId <= MaxUserId
            /\ users' = createUser(users, currentUserId, now)
            /\ currentUserId' = currentUserId + 1
            /\ UNCHANGED mongo
            /\ last' = "createUser: MemStorage"
       ELSE /\ Len(mongo.users) < MaxUserId
            /\ \A k \in 1..Len(mongo.users) : mongo.users[k]._id # oid
            /\ IF ok THEN mongo' = mongoCreateUser(mongo, oid, now) ELSE UNCHANGED mongo
            /\ UNCHANGED <<users, currentUserId>>
            /\ last' = "createUser: MongoDBStorage"
    /\ sent' = NoneSent
    /\ UNCHANGED <<readyState, userId, clients, pending, messages, currentMessageId,
                   now, receipts, contacts, currentContactId, storageModule>>

\* storage.updateUserStatus(id, isOnline) by an importer of the module, for the
\* k-th user of the store that serves it
StorageUpdateUserStatus(k, isOnline, ok) ==
    /\ storageModule.storage # "undefined"
    /\ IF storageModule.storage = "MemStorage"
       THEN /\ k \in DOMAIN users
            /\ users' = updateUserStatus(users, k, isOnline, now)
            /\ UNCHANGED mongo
            /\ last' = "updateUserStatus: MemStorage"
       ELSE /\ k \in 1..Len(mongo.users)
            /\ IF ok
               THEN mongo' = [mongo EXCEPT !.users[k] =
                                 [@ EXCEPT !.isOnline = isOnline, !.lastSeen = now]]
               ELSE UNCHANGED mongo
            /\ UNCHANGED users
            /\ last' = "updateUserStatus: MongoDBStorage"
    /\ sent' = NoneSent
    /\ UNCHANGED <<readyState, userId, clients, pending, currentUserId, messages,
                   currentMessageId, now, receipts, contacts, currentContactId,
                   storageModule>>

NextFallback ==
    \/ Tick
    \/ \E useMongo \in BOOLEAN : EvaluateStorageModule(useMongo)
    \/ \E p \in BagToSet(pending), ok \in BOOLEAN : ResumeInitialize(p, ok)
    \/ \E oid \in EdgeObjectIds, ok \in BOOLEAN : StorageCreateUser(oid, ok)
    \/ \E k \in UserIds, isOnline \in BOOLEAN, ok \in BOOLEAN :
          StorageUpdateUserStatus(k, isOnline, ok)

SpecFallback == InitFallback /\ [][NextFallback]_vars

\* ------------------------------------------------------------ properties
Range(q) == {q[i] : i \in 1..Len(q)}

\* this step is the 'close' event of connection a
ClosesNow(a) == readyState[a] = "OPEN" /\ readyState'[a] = "CLOSED"

\* this step starts handler p: it runs up to its await and suspends
SuspendsNow(p) == pending' = Suspend(pending, p)

\* this step is the continuation of the suspended handler p
ResumesNow(p) == p \in BagToSet(pending) /\ pending' = Resumed(pending, p)

\* connection a was displaced by b: both authenticated as u and the registry maps u to b
Displaced(a, b) ==
    /\ a # b
    /\ userId[a] # 0
    /\ userId[b] = userId[a]
    /\ <<userId[a], b>> \in clients

\* C1: when A authenticated as u, B then authenticated as the same u and A closes
\* afterwards, A's close handling leaves the registry mapping u to B.
C1_StaleCloseKeepsNewEntry ==
    [][\A a, b \in Conns :
          (Displaced(a, b) /\ ClosesNow(a)) => <<userId[a], b>> \in clients']_vars

\* C2: while u has a current registry entry whose connection is open, the close of
\* an earlier displaced connection of u neither persists isOnline=false for u nor
\* broadcasts status_change{u, false} to the other connections.
C2_ReconnectedNeverMarkedOffline ==
    [][\A a, b \in Conns :
          (Displaced(a, b) /\ readyState[b] = "OPEN") =>
             /\ (ClosesNow(a) /\ userId[a] \in DOMAIN users)
                   => users'[userId[a]].isOnline = users[userId[a]].isOnline
             /\ \A p \in BagToSet(pending) :
                   (p.kind = "close" /\ p.conn = a /\ ResumesNow(p))
                      => \A d \in Conns \ {a} :
                            StatusChange(userId[a], FALSE) \notin Range(sent'[d])]_vars

\* C3: a `message {receiverId: r}` event of an authenticated connection of user s
\* persists one Message with senderId = s, receiverId = r, isRead = false and a new
\* id; when the handler goes on, the open connection registered for r is sent
\* `message` with that Message and the sending connection, if still open, is sent
\* `message_sent` with the same Message.
C3_MessagePersistedPushedConfirmed ==
    [][/\ \A p \in BagToSet(pending') :
            (p.kind = "message" /\ p.ok /\ last' = "message" /\ SuspendsNow(p)) =>
               /\ userId[p.conn] # 0
               /\ p.msg.senderId = userId[p.conn]
               /\ p.msg.receiverId = p.arg
               /\ p.msg.isRead = FALSE
               /\ p.msg.id \notin DOMAIN messages
               /\ DOMAIN messages' = DOMAIN messages \cup {p.msg.id}
               /\ messages'[p.msg.id] = p.msg
               /\ \A id \in DOMAIN messages : messages'[id] = messages[id]
       /\ \A p \in BagToSet(pending) :
            (p.kind = "message" /\ p.ok /\ ResumesNow(p)) =>
               /\ \A d \in Conns :
                     (<<p.arg, d>> \in clients /\ readyState[d] = "OPEN")
                        => MessageEvent(p.msg) \in Range(sent'[d])
               /\ readyState[p.conn] = "OPEN"
                     => MessageSent(p.msg) \in Range(sent'[p.conn])
               /\ p.msg.id \in DOMAIN messages
               /\ [messages[p.msg.id] EXCEPT !.isRead = FALSE] = p.msg]_vars

C3_Witness ==
    /\ last = "message_resume"
    /\ \E c, d \in Conns :
          /\ c # d
          /\ \E m \in Range(sent[c]) : m.type = "message_sent"
          /\ \E m \in Range(sent[d]) : m.type = "message"

\* C4: `message` and `message_sent` are only ever sent carrying a Message that
\* createMessage has stored; when createMessage fails nothing is stored, the
\* handler sends no event to any connection, and the connection stays open and
\* authenticated as before.
C4_ConfirmationOnlyAfterPersistence ==
    [][/\ \A c \in Conns : \A ev \in Range(sent'[c]) :
            ev.type \in {"message", "message_sent"} =>
               /\ ev.payload.id \in DOMAIN messages
               /\ [messages[ev.payload.id] EXCEPT !.isRead = FALSE] = ev.payload
       /\ \A p \in BagToSet(pending') :
            (p.kind = "message" /\ ~p.ok /\ last' = "message" /\ SuspendsNow(p)) =>
               /\ sent' = NoneSent
               /\ UNCHANGED <<messages, currentMessageId, readyState, userId, clients>>
       /\ \A p \in BagToSet(pending) :
            (p.kind = "message" /\ ~p.ok /\ ResumesNow(p)) =>
               /\ sent' = NoneSent
               /\ UNCHANGED <<messages, currentMessageId, readyState, userId, clients>>]_vars

\* a handler went on after createMessage and sent nothing although its connection
\* (every connection) is open and authenticated: its createMessage had failed
C4_Witness ==
    /\ last = "message_resume"
    /\ sent = NoneSent
    /\ messages = <<>>
    /\ \A c \in 1..NumChatConns : readyState[c] = "OPEN" /\ userId[c] # 0

\* an event other than authenticate arrives on connection c
OtherEvent(c) ==
    \/ \E r \in PayloadIds, ok \in BOOLEAN : Message(c, r, ok)
    \/ \E id \in 1..MaxMessages : ReadReceipt(c, id)
    \/ \E r \in PayloadIds, t \in BOOLEAN : Typing(c, r, t)
    \/ Unknown(c)

\* C5: while a connection is unauthenticated, an event other than `authenticate`
\* changes neither the connection's state nor the registry nor the Repository,
\* suspends no handler and sends no event to any connection.
C5_UnauthenticatedEventsIgnored ==
    [][(progVars' # progVars \/ sent' # NoneSent) =>
          \A c \in Conns : userId[c] = 0 => ~OtherEvent(c)]_vars

\* a message event has just been handled while a registered connection exists
\* for the receiver, and no connection that could have sent it is authenticated
C5_Witness ==
    /\ last = "message"
    /\ clients # {}
    /\ \A c \in Conns : readyState[c] = "OPEN" => userId[c] = 0

\* C6: once a connection is Authenticated(u) it keeps the identity u for every
\* later inbound event until it closes.
C6_IdentityFixedUntilClose ==
    [][\A c \in Conns : userId[c] # 0 => userId'[c] = userId[c]]_vars

\* C7: no registry entry maps to a connection whose close handler has run, and
\* the registry has at most as many entries as there are open authenticated
\* connections.
C7_EntriesNeverOutliveConnection ==
    /\ \A e \in clients : readyState[e[2]] # "CLOSED"
    /\ Cardinality(clients) <=
          Cardinality({c \in Conns : readyState[c] = "OPEN" /\ userId[c] # 0})

\* C8: the registry holds at most one entry per userId; an authenticate for u
\* makes the new connection the entry of u and leaves the other entries alone;
\* the replacement closes no connection and sends nothing, and the broadcast that
\* follows reaches only connections that hold an entry under another userId, so
\* a displaced connection is sent no event because of the replacement.
C8_LastWriterWins ==
    [][/\ \A e1, e2 \in clients' : e1[1] = e2[1] => e1 = e2
       /\ \A p \in BagToSet(pending') :
            (p.kind = "authenticate" /\ last' = "authenticate" /\ SuspendsNow(p)) =>
               /\ <<p.arg, p.conn>> \in clients'
               /\ {e \in clients' : e[1] # p.arg} = {e \in clients : e[1] # p.arg}
               /\ readyState' = readyState
               /\ sent' = NoneSent
       /\ \A p \in BagToSet(pending) :
            (p.kind = "authenticate" /\ ResumesNow(p)) =>
               /\ readyState' = readyState
               /\ \A d \in Conns : sent'[d] # <<>> =>
                     \E e \in clients : e[2] = d /\ e[1] # userId[p.conn]]_vars

\* connection a is open and displaced by b, and b's authenticate has just run
C8_Witness ==
    /\ last = "authenticate"
    /\ \E a, b \in Conns :
          /\ Displaced(a, b)
          /\ readyState[a] = "OPEN"
          /\ \A e \in clients : e[2] # a

\* C9: when user X authenticates, no connection that belongs to X is sent the
\* status_change {userId: X, isOnline: true} of that transition.
C9_OnlineBroadcastExcludesSelf ==
    last = "authenticate_resume" =>
       \A c \in Conns : \A ev \in Range(sent[c]) :
          (ev.type = "status_change" /\ ev.isOnline) => ev.userId # userId[c]

\* C10: when user u authenticates, the Repository record of u gets isOnline=true
\* and, when the handler goes on, every other open connection registered under
\* another userId is sent status_change {userId: u, isOnline: true}.
C10_OnlinePersistedAndBroadcast ==
    [][/\ \A p \in BagToSet(pending') :
            (p.kind = "authenticate" /\ last' = "authenticate" /\ SuspendsNow(p)
               /\ p.arg \in DOMAIN users) => users'[p.arg].isOnline
       /\ \A p \in BagToSet(pending) :
            (p.kind = "authenticate" /\ ResumesNow(p)) =>
               \A d \in Conns \ {p.conn} :
                  (readyState[d] = "OPEN" /\ \E e \in clients : e[2] = d /\ e[1] # p.arg)
                     => StatusChange(p.arg, TRUE) \in Range(sent'[d])]_vars

\* C11: the close of a connection authenticated as u removes the registry entry of
\* u and persists isOnline=false for u in a step that sends nothing; when the
\* handler goes on, every open connection that holds a registry entry is sent
\* status_change {userId: u, isOnline: false}, and the closed connection is sent
\* nothing.
C11_OfflinePersistedAndBroadcast ==
    [][/\ \A c \in Conns :
            (ClosesNow(c) /\ userId[c] # 0) =>
               /\ ~MapHas(clients', userId[c])
               /\ userId[c] \in DOMAIN users => ~users'[userId[c]].isOnline
               /\ sent' = NoneSent
       /\ \A p \in BagToSet(pending) :
            (p.kind = "close" /\ ResumesNow(p)) =>
               /\ \A d \in Conns :
                     (readyState[d] = "OPEN" /\ \E e \in clients : e[2] = d)
                        => StatusChange(p.arg, FALSE) \in Range(sent'[d])
               /\ \A d \in Conns : \A ev \in Range(sent'[d]) :
                     ev = StatusChange(p.arg, FALSE)
               /\ sent'[p.conn] = <<>>]_vars

\* the offline broadcast of a closed connection has just reached another one
C11_Witness ==
    /\ last = "close_resume"
    /\ \E c, d \in Conns :
          /\ readyState[c] = "CLOSED"
          /\ userId[c] # 0
          /\ readyState[d] = "OPEN"
          /\ StatusChange(userId[c], FALSE) \in Range(sent[d])

\* C12: a read_receipt {messageId} of an authenticated connection for a stored
\* message sets that message's isRead to true and changes nothing else of it, in
\* a step that sends nothing; when the handler goes on, the open connection
\* registered for the message's senderId is sent read_receipt {messageId, readAt},
\* no other connection is sent anything (so the connection the receipt came from
\* gets no confirmation), and the messages fetched for the pair show isRead = true.
C12_ReadReceiptMarksAndNotifies ==
    [][/\ \A p \in BagToSet(pending') :
            (p.kind = "read_receipt" /\ last' = "read_receipt" /\ SuspendsNow(p)
               /\ p.arg \in DOMAIN messages) =>
               /\ p.ok
               /\ messages' = [messages EXCEPT ![p.arg].isRead = TRUE]
               /\ p.msg = messages'[p.arg]
               /\ sent' = NoneSent
       /\ \A p \in BagToSet(pending) :
            (p.kind = "read_receipt" /\ p.ok /\ ResumesNow(p)) =>
               /\ \A d \in Conns :
                     IF <<p.msg.senderId, d>> \in clients /\ readyState[d] = "OPEN"
                     THEN sent'[d] = <<ReadReceiptEvent(p.arg, now)>>
                     ELSE sent'[d] = <<>>
               /\ \E m \in Range(getMessages(messages', p.msg.senderId, p.msg.receiverId)) :
                     m.id = p.arg /\ m.isRead]_vars

\* the connection of a message's sender has just been notified that it was read
C12_Witness ==
    /\ last = "read_receipt_resume"
    /\ \E d \in Conns : \E ev \in Range(sent[d]) :
          /\ ev.type = "read_receipt"
          /\ messages[ev.messageId].isRead
          /\ userId[d] = messages[ev.messageId].senderId

\* C13: a stored message whose isRead is true is still stored with isRead true
\* after every step: a createMessage, a markMessageAsRead, any handler of a live
\* event and any request.
C13_ReadFlagMonotonic ==
    [][\A id \in DOMAIN messages :
          messages[id].isRead => (id \in DOMAIN messages' /\ messages'[id].isRead)]_vars

\* a createMessage has just run after the first message was read
C13_Witness ==
    /\ last \in {"message", "POST /api/messages"}
    /\ DOMAIN messages = {1, 2}
    /\ messages[1].isRead
    /\ ~messages[2].isRead

\* C14: for every message, at most one read_receipt push for its messageId is
\* ever sent, however many read_receipt events for it arrive.
C14_ReceiptPushedAtMostOnce ==
    \A id \in DOMAIN receipts : receipts[id] <= 1

\* C15: typing {receiverId: r, isTyping} of a connection authenticated as s changes
\* neither the Repository nor the registry nor any connection; the open connection
\* registered for r is sent typing {senderId: s, isTyping}, and no other connection
\* is sent anything.
C15_TypingOnlyReachesReceiver ==
    [][last' = "typing" =>
         \A c \in Conns, r \in PayloadIds, t \in BOOLEAN :
            (Typing(c, r, t) /\ userId[c] # 0) =>
               /\ UNCHANGED progVars
               /\ \A d \in Conns :
                     IF <<r, d>> \in clients /\ readyState[d] = "OPEN"
                     THEN sent'[d] = <<TypingEvent(userId[c], t)>>
                     ELSE sent'[d] = <<>>]_vars

\* a connection has just been told that the user of another connection is typing
C15_Witness ==
    /\ last = "typing"
    /\ \E c, d \in Conns : \E ev \in Range(sent[d]) :
          /\ c # d
          /\ ev.type = "typing"
          /\ ev.senderId = userId[c]
          /\ readyState[c] = "OPEN"
          /\ sent[c] = <<>>

\* C16: a malformed inbound event (unparseable text, missing payload, unknown
\* type) is dropped: the connection stays open, its authentication state, the
\* registry, the Repository and the suspended handlers are unchanged and no event
\* is sent; the state being the same, every event the connection could have
\* handled before it can still be handled after it.
C16_MalformedEventDropped ==
    [][last' = "unknown" =>
          \A c \in Conns :
             Unknown(c) =>
                /\ readyState'[c] = "OPEN"
                /\ UNCHANGED progVars
                /\ sent' = NoneSent]_vars

\* an authenticated connection with a message stored and a handler suspended
\* has just been sent a malformed event
C16_Witness ==
    /\ last = "unknown"
    /\ messages # <<>>
    /\ pending # EmptyBag
    /\ \E c \in Conns : readyState[c] = "OPEN" /\ MapGet(clients, userId[c]) = c

\* the messages with this content among those fetched for the pair u, contactId
WithContent(ms, u, contactId, content) ==
    {i \in 1..Len(getMessages(ms, u, contactId)) :
        getMessages(ms, u, contactId)[i].content = content}

\* C17: once a `message` event of sender s for receiver r with some content has
\* been handled (createMessage fulfilled), and no message of the pair had that
\* content before, the messages fetched for the pair hold exactly one message
\* with that content; its sentAt is the clock reading when it was handled, the
\* clock never goes back, so sentAt is not earlier than when the event was sent.
C17_MessageFetchedOnceWithTimestamp ==
    [][/\ now' >= now
       /\ \A p \in BagToSet(pending') :
            (p.kind = "message" /\ p.ok /\ last' = "message" /\ SuspendsNow(p)
               /\ WithContent(messages, p.msg.senderId, p.arg, p.msg.content) = {}) =>
               /\ Cardinality(WithContent(messages', p.msg.senderId, p.arg,
                                          p.msg.content)) = 1
               /\ Cardinality(WithContent(messages', p.arg, p.msg.senderId,
                                          p.msg.content)) = 1
               /\ \A i \in WithContent(messages', p.msg.senderId, p.arg, p.msg.content) :
                     LET m == getMessages(messages', p.msg.senderId, p.arg)[i]
                     IN /\ m = p.msg
                        /\ m.sentAt = now
                        /\ \A id \in DOMAIN messages : messages[id].sentAt <= m.sentAt]_vars

\* a second message of a pair, with another content, has just been stored later
\* than the first
C17_Witness ==
    /\ last = "message"
    /\ DOMAIN messages = {1, 2}
    /\ messages[1].content # messages[2].content
    /\ messages[1].sentAt < messages[2].sentAt
    /\ Len(getMessages(messages, messages[2].senderId, messages[2].receiverId)) = 2

\* message m, whatever its read flag, is among those fetched by u for contactId
Fetched(ms, u, contactId, m) ==
    \E x \in Range(getMessages(ms, u, contactId)) : [x EXCEPT !.isRead = FALSE] = m

\* C18: when a `message` or `message_sent` event carrying m is pushed, the
\* messages fetched for m's pair, by the sender or by the receiver, contain m;
\* when a read_receipt {messageId} is pushed, the stored message has isRead true;
\* and every later fetch agrees, because a stored message stays stored, keeps its
\* fields and keeps a true read flag.
C18_PushedStateIsFetched ==
    [][/\ \A c \in Conns : \A ev \in Range(sent'[c]) :
            /\ ev.type \in {"message", "message_sent"} =>
                  /\ Fetched(messages', ev.payload.senderId, ev.payload.receiverId,
                             ev.payload)
                  /\ Fetched(messages', ev.payload.receiverId, ev.payload.senderId,
                             ev.payload)
            /\ ev.type = "read_receipt" =>
                  /\ ev.messageId \in DOMAIN messages'
                  /\ messages'[ev.messageId].isRead
       /\ \A id \in DOMAIN messages :
            /\ id \in DOMAIN messages'
            /\ [messages'[id] EXCEPT !.isRead = messages[id].isRead] = messages[id]
            /\ messages[id].isRead => messages'[id].isRead]_vars

\* a message has just been pushed to the other user's connection after a second
\* message was stored
C18_Witness ==
    /\ last = "message_resume"
    /\ DOMAIN messages = {1, 2}
    /\ \E c \in Conns : \E ev \in Range(sent[c]) :
          /\ ev.type = "message"
          /\ ev.payload.id = 1
          /\ ev.payload.senderId # userId[c]
          /\ Fetched(messages, userId[c], ev.payload.senderId, ev.payload)

\* C19: on one connection a handler starts only when no earlier handler of that
\* connection is still suspended, and the handlers of its `message` events go on
\* (push and confirm) in the order the events arrived, which is the order of the
\* ids createMessage gave them.
C19_PerConnectionFifo ==
    [][/\ \A p \in BagToSet(pending') :
            SuspendsNow(p) => \A q \in BagToSet(pending) : q.conn # p.conn
       /\ \A p \in BagToSet(pending) :
            (p.kind = "message" /\ p.ok /\ ResumesNow(p)) =>
               \A q \in BagToSet(pending) :
                  (q.kind = "message" /\ q.ok /\ q.conn = p.conn)
                     => p.msg.id <= q.msg.id]_vars

C21_BroadcastIndependentOfPersistence ==
    [][/\ \A p \in BagToSet(pending) :
            (p.kind = "authenticate" /\ ResumesNow(p)) =>
               \A d \in Conns :
                  IF readyState[d] = "OPEN"
                     /\ \E e \in clients : e[2] = d /\ e[1] # userId[p.conn]
                  THEN StatusChange(userId[p.conn], TRUE) \in Range(sent'[d])
                  ELSE sent'[d] = <<>>
       /\ \A p \in BagToSet(pending) :
            (p.kind = "close" /\ ResumesNow(p)) =>
               \A d \in Conns :
                  IF readyState[d] = "OPEN" /\ \E e \in clients : e[2] = d
                  THEN StatusChange(p.arg, FALSE) \in Range(sent'[d])
                  ELSE sent'[d] = <<>>
       /\ \A p \in BagToSet(pending') :
            (p.kind \in {"authenticate", "close"} /\ SuspendsNow(p) /\ p.ok
               /\ p.arg \in DOMAIN users) =>
               users'[p.arg].isOnline = (p.kind = "authenticate")]_vars

\* user u's presence write failed (u is registered for an open connection and
\* stored as offline), and another connection has just been told u is online
C21_Witness ==
    /\ last = "authenticate_resume"
    /\ \E c, d \in Conns :
          /\ c # d
          /\ readyState[c] = "OPEN"
          /\ userId[c] \in DOMAIN users
          /\ <<userId[c], c>> \in clients
          /\ ~users[userId[c]].isOnline
          /\ \A b \in Conns : readyState[b] = "CLOSED" => userId[b] # userId[c]
          /\ StatusChange(userId[c], TRUE) \in Range(sent[d])

\* C22: addContact is idempotent: however often it is called, the store holds at
\* most one edge for an ordered pair (userId, contactId), the one the first call
\* created.
C22_AddContactIdempotent ==
    \A i, j \in DOMAIN contacts :
        (contacts[i].userId = contacts[j].userId
           /\ contacts[i].contactId = contacts[j].contactId) => i = j

\* the ids of the stored messages between u and contactId, in either direction
PairIds(ms, u, contactId) ==
    {id \in DOMAIN ms :
        \/ ms[id].senderId = u /\ ms[id].receiverId = contactId
        \/ ms[id].senderId = contactId /\ ms[id].receiverId = u}

\* C24: after any createMessage and markMessageAsRead calls, getMessages(u, c)
\* holds each stored message between u and c in either direction once and no
\* other, in non-decreasing sentAt, and getMessages(c, u) is the same list.
C24_ListMessagesPairSorted ==
    \A u, c \in RepoUserIds :
        LET q == getMessages(messages, u, c)
        IN /\ Range(q) = {messages[id] : id \in PairIds(messages, u, c)}
           /\ Len(q) = Cardinality(PairIds(messages, u, c))
           /\ \A i, j \in 1..Len(q) : i < j => q[i].sentAt <= q[j].sentAt
           /\ getMessages(messages, c, u) = q

\* two messages of a pair, one in each direction, stored at different times, the
\* first one read
C24_Witness ==
    /\ DOMAIN messages = {1, 2}
    /\ messages[1].senderId = messages[2].receiverId
    /\ messages[1].receiverId = messages[2].senderId
    /\ messages[1].sentAt < messages[2].sentAt
    /\ messages[1].isRead
    /\ Len(getMessages(messages, messages[1].senderId, messages[1].receiverId)) = 2

\* the users u has a contact edge to
ContactsOf(u) == {contacts[id].contactId : id \in {i \in DOMAIN contacts : contacts[i].userId = u}}

\* the users u exchanged a message with
PartnersOf(u) ==
    {Partner(messages[id], u) :
        id \in {i \in DOMAIN messages : messages[i].senderId = u \/ messages[i].receiverId = u}}

\* what a caller sees of a user, of a message and of a conversation, apart
\* from the ids the store chose
UserView(u) == IF u = Absent THEN Absent ELSE [isOnline |-> u.isOnline, lastSeen |-> u.lastSeen]
MessageView(m) == [content |-> m.content, sentAt |-> m.sentAt, isRead |-> m.isRead]
ConversationView(e) ==
    [contact |-> UserView(e.contact), lastMessage |-> MessageView(e.lastMessage)]

\* C23: MemStorage and MongoDBStorage, given the same operations from empty,
\* answer alike: a created user has the same presence, and getUser,
\* getContacts, getMessages and getRecentConversations return the same users,
\* messages and conversations in the same order.
C23_StoresEquivalent ==
    /\ last = "createUser" =>
          UserView(users[currentUserId - 1])
             = UserView(mapMongoUserToUser(mongo.users[Len(mongo.users)]))
    /\ \A k \in DOMAIN users :
          /\ UserView(users[k]) = UserView(mongoGetUser(mongo, MongoId(k)))
          /\ LET q == getContacts(contacts, users, k)
                 r == mongoGetContacts(mongo, MongoId(k))
             IN [i \in 1..Len(q) |-> UserView(q[i])] = [i \in 1..Len(r) |-> UserView(r[i])]
          /\ LET q == getRecentConversations(messages, users, k)
                 r == mongoGetRecentConversations(mongo, MongoId(k))
             IN [i \in 1..Len(q) |-> ConversationView(q[i])]
                   = [i \in 1..Len(r) |-> ConversationView(r[i])]
          /\ \A j \in DOMAIN users :
                LET q == getMessages(messages, k, j)
                    r == mongoGetMessages(mongo, MongoId(k), MongoId(j))
                IN [i \in 1..Len(q) |-> MessageView(q[i])]
                      = [i \in 1..Len(r) |-> MessageView(r[i])]

\* MemStorage: user u with the contacts {a, b} and messages only with a gets one
\* conversation, with a, and its lastMessage is a newest message of the two
MemOneConversation ==
    \A u, a, b \in RepoUserIds :
        (a # b /\ ContactsOf(u) = {a, b} /\ PartnersOf(u) = {a}) =>
           LET q == getRecentConversations(messages, users, u)
           IN /\ Len(q) = 1
              /\ q[1].contact = users[a]
              /\ q[1].lastMessage \in {messages[id] : id \in PairIds(messages, u, a)}
              /\ \A id \in PairIds(messages, u, a) :
                    messages[id].sentAt <= q[1].lastMessage.sentAt

\* the same for MongoDBStorage
MongoOneConversation ==
    \A u, a, b \in 1..Len(mongo.users) :
        (/\ MongoId(a) # MongoId(b)
         /\ {mongo.contacts[k].contactId :
                k \in {i \in 1..Len(mongo.contacts) : mongo.contacts[i].userId = MongoId(u)}}
               = {MongoId(a), MongoId(b)}
         /\ mongoPair(mongo, MongoId(u), MongoId(a)) # {}
         /\ \A k \in 1..Len(mongo.messages) :
               (mongo.messages[k].senderId = MongoId(u)
                  \/ mongo.messages[k].receiverId = MongoId(u))
               => k \in mongoPair(mongo, MongoId(u), MongoId(a))) =>
           LET q == mongoGetRecentConversations(mongo, MongoId(u))
           IN /\ Len(q) = 1
              /\ q[1].contact.id = MongoId(a)
              /\ \A k \in mongoPair(mongo, MongoId(u), MongoId(a)) :
                    mongo.messages[k].sentAt <= q[1].lastMessage.sentAt

\* C25: when user u has the contacts {A, B} and exchanged messages only with A,
\* getRecentConversations(u) is one entry, for A, and its lastMessage is a message
\* exchanged with A, in either direction, that no other such message is newer
\* than; in MemStorage and in MongoDBStorage.
C25_OneConversationForMessagedContact ==
    /\ MemOneConversation
    /\ MongoOneConversation

\* C26: getRecentConversations(u) is made from the contact edges of u: each entry
\* is for a user u has an edge to, each contact with message history has one
\* entry, a user who exchanged messages with u but is not its contact has none,
\* and the entries are in descending lastMessage.sentAt.
C26_ConversationsFollowContactEdges ==
    \A u \in RepoUserIds :
        LET q == getRecentConversations(messages, users, u)
        IN /\ \A i \in 1..Len(q) : q[i].contact.id \in ContactsOf(u)
           /\ \A a \in ContactsOf(u) \cap PartnersOf(u) \cap DOMAIN users :
                 Cardinality({i \in 1..Len(q) : q[i].contact.id = a}) = 1
           /\ \A i, j \in 1..Len(q) :
                 i < j => q[i].lastMessage.sentAt >= q[j].lastMessage.sentAt

\* C27: updateUserStatus(id, isOnline) for an existing user stores isOnline and
\* lastSeen = now, for isOnline = true as for isOnline = false, and changes
\* nothing for an id no user has.
C27_PresenceWriteStampsLastSeen ==
    [][last' = "updateUserStatus" =>
         \A id \in 1..(MaxRepoUsers + 1), isOnline \in BOOLEAN :
            UpdateUserStatus(id, isOnline) =>
               IF id \in DOMAIN users
               THEN users' = [users EXCEPT ![id] =
                                [id |-> id, isOnline |-> isOnline, lastSeen |-> now]]
               ELSE users' = users]_vars

\* C28: the senderId and the receiverId of every stored message are ids of
\* existing users, whichever surface created the message.
C28_MessagesReferenceExistingUsers ==
    \A id \in DOMAIN messages :
        /\ messages[id].senderId \in DOMAIN users
        /\ messages[id].receiverId \in DOMAIN users

\* the add-contact request was refused
ContactRejections ==
    {"POST /api/contacts: 400 Username is required",
     "POST /api/contacts: 404 User not found",
     "POST /api/contacts: 400 Cannot add yourself as a contact",
     "POST /api/contacts: 400 User is already in your contacts"}

\* C29: through POST /api/contacts every stored contact edge joins two
\* different existing users; a request naming the requester or no user is
\* refused, and a refused request leaves the contacts as they were.
C29_ContactEdgesJoinDistinctUsers ==
    [][/\ \A id \in DOMAIN contacts' :
             /\ contacts'[id].userId # contacts'[id].contactId
             /\ contacts'[id].userId \in DOMAIN users'
             /\ contacts'[id].contactId \in DOMAIN users'
       /\ last' \in ContactRejections => UNCHANGED repoVars
       /\ \A p \in BagToSet(pending) :
             (ResumePostContact(p) /\ (p.arg = 0 \/ p.arg = p.conn)) =>
                last' \in ContactRejections]_vars

\* a user has just been refused itself as a contact while contact edges are
\* stored
C29_Witness ==
    /\ last = "POST /api/contacts: 400 Cannot add yourself as a contact"
    /\ contacts # <<>>

\* the send or the mark-read request was refused
MessageRejections ==
    {"POST /api/messages: 400", "POST /api/messages: 404",
     "PATCH /api/messages/:messageId/read: 404"}

\* C30: POST /api/messages without receiverId or content answers 400 and for a
\* receiver no user has 404, PATCH .../read for an id no message has answers
\* 404, and none of the three stores or changes a message.
C30_RejectedRequestsPersistNothing ==
    [][/\ last' \in MessageRejections => UNCHANGED <<messages, currentMessageId>>
       /\ \A u \in {1, 2}, r \in 0..(MaxRepoUsers + 1), content \in {"", "a"} :
             PostMessage(u, r, content) =>
                /\ (r = 0 \/ content = "") => last' = "POST /api/messages: 400"
                /\ (r # 0 /\ content # "" /\ r \notin DOMAIN users) =>
                      last' = "POST /api/messages: 404"
       /\ \A id \in 1..(MaxSessionMessages + 1) :
             (PatchRead(id) /\ id \notin DOMAIN messages) =>
                last' = "PATCH /api/messages/:messageId/read: 404"]_vars

\* a send to an id no user has was refused while an unread message is stored
C30_Witness ==
    /\ last = "POST /api/messages: 404"
    /\ \E id \in DOMAIN messages : ~messages[id].isRead

\* C31: an event whose target is not found pushes nothing: a read_receipt for
\* an id no message has changes no message and sends nothing, a message for a
\* receiverId without registry entry sends only message_sent to its sender, and
\* a typing for a receiverId without registry entry sends nothing.
C31_UnresolvedTargetNoPush ==
    [][/\ last' = "read_receipt" =>
             /\ sent' = NoneSent
             /\ \A p \in BagToSet(pending') :
                   (p.kind = "read_receipt" /\ SuspendsNow(p) /\ p.arg \notin DOMAIN messages)
                      => messages' = messages
       /\ last' = "read_receipt_resume" =>
             \A p \in BagToSet(pending) :
                (p.kind = "read_receipt" /\ ~p.ok /\ ResumesNow(p))
                   => messages' = messages /\ sent' = NoneSent
       /\ last' = "message_resume" =>
             \A p \in BagToSet(pending) :
                (p.kind = "message" /\ ~MapHas(clients, p.arg) /\ ResumesNow(p)) =>
                   /\ messages' = messages
                   /\ \A d \in Conns \ {p.conn} : sent'[d] = <<>>
                   /\ \A ev \in Range(sent'[p.conn]) : ev = MessageSent(p.msg)
       /\ (last' = "typing" /\ sent' # NoneSent) =>
             \A c \in Conns, r \in PayloadIds, t \in BOOLEAN :
                ~(~MapHas(clients, r) /\ Typing(c, r, t))]_vars

\* a message for a user without registry entry was confirmed to its sender while
\* another connection is open and registered
C31_Witness ==
    /\ last = "message_resume"
    /\ \E c, d \in Conns :
          /\ c # d
          /\ readyState[d] = "OPEN"
          /\ \E e \in clients : e[2] = d
          /\ Len(sent[c]) = 1
          /\ sent[c][1].type = "message_sent"
          /\ ~MapHas(clients, sent[c][1].payload.receiverId)

\* C32: in MemStorage and in MongoDBStorage no two stored messages are returned
\* to callers with the same id.
C32_MessageIdsUnique ==
    /\ \A i, j \in DOMAIN messages : i # j => messages[i].id # messages[j].id
    /\ \A i, j \in 1..Len(mongo.messages) :
          i # j => mapMongoMessageToMessage(mongo.messages[i]).id
                      # mapMongoMessageToMessage(mongo.messages[j]).id

\* C33: an authenticate with a non-zero userId makes the connection the
\* registry entry of that id and suspends for the online broadcast, whether or
\* not a user has the id (the store is then left as it is), and when the handler
\* goes on every other open registered connection is sent the status_change of
\* the connection's identity; an authenticate with userId 0 or none on an
\* unauthenticated connection leaves it unauthenticated, changes neither the
\* registry nor the store and sends nothing.
C33_AnyIdentityAccepted ==
    [][/\ last' = "authenticate" =>
             \A c \in Conns, u \in PayloadIds :
                Authenticate(c, u) =>
                   IF u # 0
                   THEN /\ userId'[c] = u
                        /\ <<u, c>> \in clients'
                        /\ SuspendsNow(Suspended("authenticate", c, u, TRUE, NoMessage))
                        /\ u \notin DOMAIN users => users' = users
                   ELSE userId[c] = 0 =>
                           /\ userId'[c] = 0
                           /\ UNCHANGED <<clients, pending, users, messages>>
                           /\ sent' = NoneSent
       /\ last' = "authenticate_resume" =>
             \A p \in BagToSet(pending) :
                (p.kind = "authenticate" /\ ResumesNow(p)) =>
                   \A d \in Conns :
                      (readyState[d] = "OPEN"
                         /\ \E e \in clients : e[2] = d /\ e[1] # userId[p.conn])
                      => StatusChange(userId[p.conn], TRUE) \in Range(sent'[d])]_vars

\* a connection authenticated with an id no user has, and another connection has
\* just been told that id is online
C33_Witness ==
    /\ last = "authenticate_resume"
    /\ \E c, d \in Conns :
          /\ c # d
          /\ userId[c] # 0
          /\ userId[c] \notin DOMAIN users
          /\ <<userId[c], c>> \in clients
          /\ StatusChange(userId[c], TRUE) \in Range(sent[d])

\* C34: whenever no authenticate and no close handler is suspended, a user's
\* stored isOnline is true exactly when the registry holds an entry for the user.
C34_PresenceAgreesWithRegistry ==
    (\A p \in BagToSet(pending) : p.kind \notin {"authenticate", "close"}) =>
       \A u \in DOMAIN users : users[u].isOnline <=> MapHas(clients, u)

\* C35: one send from the chat window, over an open authenticated socket,
\* stores one message with its text between the two users, not more.
C35_OneMessagePerSend ==
    \A content \in Contents :
        Cardinality({id \in DOMAIN messages : messages[id].content = content}) <= 1

\* C36: the message a live `message` event stores has as senderId the identity
\* its connection had when the event came in, and it is pushed and confirmed as
\* it was stored, whatever the connection did while the handler was suspended;
\* a typing event is pushed with the identity of its connection as senderId.
C36_SenderIsConnectionIdentity ==
    [][/\ last' = "message" =>
             /\ \A p \in BagToSet(pending') :
                   (p.kind = "message" /\ p.ok /\ SuspendsNow(p)) =>
                      /\ p.msg.senderId = userId[p.conn]
                      /\ p.msg.id \notin DOMAIN messages
                      /\ messages'[p.msg.id] = p.msg
             /\ \A id \in DOMAIN messages' \ DOMAIN messages :
                   \E c \in Conns :
                      /\ messages'[id].senderId = userId[c]
                      /\ SuspendsNow(Suspended("message", c, messages'[id].receiverId,
                                               TRUE, messages'[id]))
       /\ last' = "message_resume" =>
             \A p \in BagToSet(pending) :
                (p.kind = "message" /\ ResumesNow(p)) =>
                   \A d \in Conns : \A ev \in Range(sent'[d]) :
                      /\ ev.payload.senderId = p.msg.senderId
                      /\ p.msg.id \in DOMAIN messages
                      /\ messages[p.msg.id].senderId = p.msg.senderId
       /\ (last' = "typing" /\ sent' # NoneSent) =>
             \A c \in Conns, r \in PayloadIds, t \in BOOLEAN :
                Typing(c, r, t) =>
                   \A d \in Conns : \A ev \in Range(sent'[d]) : ev.senderId = userId[c]]_vars

\* a message was confirmed to the connection that sent it, with the identity
\* the connection had then, after the connection took another identity
C36_Witness ==
    /\ last = "message_resume"
    /\ \E c \in Conns :
          /\ Len(sent[c]) > 0
          /\ sent[c][Len(sent[c])].type = "message_sent"
          /\ sent[c][Len(sent[c])].payload.senderId # userId[c]
          /\ sent[c][Len(sent[c])].payload.senderId # 0

\* C37: a `message` push reaches only the connection registered under the
\* message's receiverId, `message_sent` only the connection whose handler stored
\* the message, `typing` only the connection registered under its receiverId,
\* `read_receipt` only the connection registered under the message's senderId;
\* no other step sends any of these events.
C37_OnlyIntendedParty ==
    [][/\ last' = "message_resume" =>
             \A p \in BagToSet(pending) :
                (p.kind = "message" /\ ResumesNow(p)) =>
                   \A d \in Conns : \A ev \in Range(sent'[d]) :
                      \/ /\ ev = MessageEvent(p.msg)
                         /\ MapHas(clients, p.msg.receiverId)
                         /\ MapGet(clients, p.msg.receiverId) = d
                      \/ /\ ev = MessageSent(p.msg)
                         /\ d = p.conn
       /\ last' = "read_receipt_resume" =>
             \A p \in BagToSet(pending) :
                (p.kind = "read_receipt" /\ ResumesNow(p)) =>
                   \A d \in Conns : \A ev \in Range(sent'[d]) :
                      /\ ev.type = "read_receipt"
                      /\ ev.messageId \in DOMAIN messages
                      /\ MapHas(clients, messages[ev.messageId].senderId)
                      /\ MapGet(clients, messages[ev.messageId].senderId) = d
       /\ (last' = "typing" /\ sent' # NoneSent) =>
             \A c \in Conns, r \in PayloadIds, t \in BOOLEAN :
                Typing(c, r, t) =>
                   \A d \in Conns : \A ev \in Range(sent'[d]) :
                      /\ ev.type = "typing"
                      /\ MapHas(clients, r)
                      /\ MapGet(clients, r) = d
       /\ last' \notin {"message_resume", "read_receipt_resume", "typing"} =>
             \A d \in Conns : \A ev \in Range(sent'[d]) :
                ev.type \notin {"message", "message_sent", "typing", "read_receipt"}]_vars

\* a message was pushed to the connection registered under its receiverId, and
\* only confirmed to the connection that sent it
C37_Witness ==
    /\ last = "message_resume"
    /\ \E c, d \in Conns :
          /\ c # d
          /\ Len(sent[c]) = 1 /\ Len(sent[d]) = 1
          /\ sent[c] = <<MessageSent(sent[c][1].payload)>>
          /\ sent[d] = <<MessageEvent(sent[c][1].payload)>>
          /\ MapGet(clients, sent[d][1].payload.receiverId) = d

\* C38: a read_receipt event from a connection whose identity is not the
\* receiverId of the message it names leaves the message's read flag as it was
\* and pushes no read_receipt.
C38_OnlyReceiverMarksRead ==
    [][/\ last' = "read_receipt" =>
             \A p \in BagToSet(pending') :
                (/\ p.kind = "read_receipt"
                 /\ SuspendsNow(p)
                 /\ p.arg \in DOMAIN messages
                 /\ messages[p.arg].receiverId # userId[p.conn])
                   => messages'[p.arg].isRead = messages[p.arg].isRead
       /\ last' = "read_receipt_resume" =>
             \A p \in BagToSet(pending) :
                (/\ p.kind = "read_receipt"
                 /\ ResumesNow(p)
                 /\ p.ok
                 /\ p.msg.receiverId # userId[p.conn])
                   => sent' = NoneSent]_vars

\* C40: once the networked store was selected and its initialize() has
\* rejected, every operation made through the exported `storage` is served by
\* the in-memory store: `storage` is the MemStorage object, and the operation
\* is MemStorage's and leaves the collections of the networked store alone.
C40_FallbackServesOperations ==
    [][(storageModule.USE_MONGODB /\ storageModule.initialize = "rejected") =>
          /\ storageModule.storage = "MemStorage"
          /\ mongo' = mongo
          /\ last' \notin {"createUser: MongoDBStorage",
                           "updateUserStatus: MongoDBStorage"}]_vars

\* C39: in MemStorage and in MongoDBStorage the id createUser returned finds
\* that user with getUser and with updateUserStatus, and the id createMessage
\* returned makes markMessageAsRead set isRead on that message.
C39_IdsRoundTrip ==
    /\ \A k \in DOMAIN users :
          /\ getUser(users, users[k].id) = users[k]
          /\ updateUserStatus(users, users[k].id, ~users[k].isOnline, now)[k].isOnline
                = ~users[k].isOnline
    /\ \A k \in DOMAIN messages :
          markMessageAsRead(messages, messages[k].id)[k].isRead
    /\ \A k \in 1..Len(mongo.users) :
          /\ mongoGetUser(mongo, MongoId(k)) = mapMongoUserToUser(mongo.users[k])
          /\ mongoUpdateUserStatus(mongo, MongoId(k), ~mongo.users[k].isOnline, now)
                .users[k].isOnline = ~mongo.users[k].isOnline
    /\ \A k \in 1..Len(mongo.messages) :
          mongoMarkMessageAsRead(mongo, mapMongoMessageToMessage(mongo.messages[k]).id)
             .messages[k].isRead
====
